---------------------------- MODULE Spec2Model ----------------------------
(***************************************************************************)
(* A model of the emulation core of the spotty terminal:                   *)
(*   - the byte-protocol decoder        (src/src/tty/control_code.rs)      *)
(*   - the screen / grid model          (src/src/screen.rs, grid.rs)       *)
(*   - the pseudo-terminal I/O pipeline (src/src/tty.rs, main.rs)          *)
(* Bytes are integers 0..255, characters are Unicode code points, byte     *)
(* strings are sequences.  Sequences are 1-indexed; where the source holds *)
(* a 0-based offset the model says so.                                     *)
(***************************************************************************)
EXTENDS Integers, Sequences, FiniteSets, TLC

(***************************************************************************)
(* Generic helpers                                                         *)
(***************************************************************************)
Min(a, b) == IF a <= b THEN a ELSE b
Max(a, b) == IF a >= b THEN a ELSE b

\* s[from..] and s[..to] of a sequence, 1-based and inclusive
Drop(s, n) == SubSeq(s, n + 1, Len(s))
Take(s, n) == SubSeq(s, 1, n)

in_range(b, lo, hi) == lo <= b /\ b <= hi

U16_MAX == 65535

saturating_add(a, b) == Min(a + b, U16_MAX)
saturating_sub(a, b) == IF a >= b THEN a - b ELSE 0

\* u16 + and -: the wrapped value, and whether the operation overflowed
u16_add(a, b) == [value |-> (a + b) % (U16_MAX + 1), overflow |-> a + b > U16_MAX]
u16_sub(a, b) == [value |-> (a - b + U16_MAX + 1) % (U16_MAX + 1), overflow |-> a < b]

(***************************************************************************)
(* Named bytes of the wire format                                          *)
(***************************************************************************)
BEL == 7
BS  == 8
HT  == 9
LF  == 10
CR  == 13
ESC == 27
DEL == 127

REPLACEMENT_CHARACTER == 65533

(***************************************************************************)
(* UTF-8: std::str::from_utf8 as the decoder uses it.  The result is       *)
(* [valid_up_to, error]: error = "ok" (the slice is valid), "incomplete"   *)
(* (error_len() = None: the slice ends inside a character) or "invalid"    *)
(* with error_len in 1..3.                                                 *)
(***************************************************************************)
utf8_char_width(b) ==
    IF b < 128 THEN 1
    ELSE IF in_range(b, 194, 223) THEN 2
    ELSE IF in_range(b, 224, 239) THEN 3
    ELSE IF in_range(b, 240, 244) THEN 4
    ELSE 0

is_continuation(b) == in_range(b, 128, 191)

\* the range the second byte of a 3- or 4-byte character must lie in
second_byte_ok(first, second) ==
    CASE first = 224 -> in_range(second, 160, 191)
      [] first = 237 -> in_range(second, 128, 159)
      [] first = 240 -> in_range(second, 144, 191)
      [] first = 244 -> in_range(second, 128, 143)
      [] OTHER -> in_range(second, 128, 191)

\* the check of the one character starting at bytes[i]:
\* [len |-> n] (valid, n bytes), or an error
utf8_char_at(bytes, i) ==
    LET n == Len(bytes)
        w == utf8_char_width(bytes[i])
    IN  IF w = 1 THEN [error |-> "ok", len |-> 1]
        ELSE IF w = 0 THEN [error |-> "invalid", len |-> 1]
        ELSE IF i + 1 > n THEN [error |-> "incomplete", len |-> 0]
        ELSE IF w = 2 THEN
            IF is_continuation(bytes[i + 1]) THEN [error |-> "ok", len |-> 2]
            ELSE [error |-> "invalid", len |-> 1]
        ELSE IF ~second_byte_ok(bytes[i], bytes[i + 1]) THEN [error |-> "invalid", len |-> 1]
        ELSE IF i + 2 > n THEN [error |-> "incomplete", len |-> 0]
        ELSE IF ~is_continuation(bytes[i + 2]) THEN [error |-> "invalid", len |-> 2]
        ELSE IF w = 3 THEN [error |-> "ok", len |-> 3]
        ELSE IF i + 3 > n THEN [error |-> "incomplete", len |-> 0]
        ELSE IF ~is_continuation(bytes[i + 3]) THEN [error |-> "invalid", len |-> 3]
        ELSE [error |-> "ok", len |-> 4]

RECURSIVE from_utf8_at(_, _)
from_utf8_at(bytes, i) ==
    IF i > Len(bytes) THEN [error |-> "ok", valid_up_to |-> Len(bytes), error_len |-> 0]
    ELSE LET c == utf8_char_at(bytes, i)
         IN  IF c.error = "ok" THEN from_utf8_at(bytes, i + c.len)
             ELSE [error |-> c.error, valid_up_to |-> i - 1, error_len |-> c.len]

from_utf8(bytes) == from_utf8_at(bytes, 1)

\* the code point of the valid character of n bytes at bytes[i]
char_at(bytes, i, n) ==
    CASE n = 1 -> bytes[i]
      [] n = 2 -> (bytes[i] - 192) * 64 + (bytes[i + 1] - 128)
      [] n = 3 -> (bytes[i] - 224) * 4096 + (bytes[i + 1] - 128) * 64 + (bytes[i + 2] - 128)
      [] OTHER -> (bytes[i] - 240) * 262144 + (bytes[i + 1] - 128) * 4096
                    + (bytes[i + 2] - 128) * 64 + (bytes[i + 3] - 128)

\* str::chars() of a valid UTF-8 byte string
RECURSIVE chars_at(_, _)
chars_at(bytes, i) ==
    IF i > Len(bytes) THEN << >>
    ELSE LET n == utf8_char_at(bytes, i).len
         IN  << char_at(bytes, i, n) >> \o chars_at(bytes, i + n)

chars(bytes) == chars_at(bytes, 1)

\* char::encode_utf8
encode_utf8(ch) ==
    IF ch < 128 THEN << ch >>
    ELSE IF ch < 2048 THEN << 192 + (ch \div 64), 128 + (ch % 64) >>
    ELSE IF ch < 65536 THEN
        << 224 + (ch \div 4096), 128 + ((ch \div 64) % 64), 128 + (ch % 64) >>
    ELSE << 240 + (ch \div 262144), 128 + ((ch \div 4096) % 64),
            128 + ((ch \div 64) % 64), 128 + (ch % 64) >>

(***************************************************************************)
(* The command-sink vocabulary (trait Terminal).  A command is a record    *)
(* [op, s, n]: the method, its enumerated argument and its numeric or      *)
(* byte-string argument.                                                   *)
(***************************************************************************)
Cmd(op, s, n) == [op |-> op, s |-> s, n |-> n]

AllStyles ==
    {"BOLD", "FAINT", "ITALIC", "UNDERLINE", "BLINK", "INVERSE", "INVISIBLE", "STRIKETHROUGH"}

(***************************************************************************)
(* The decoder: control_code.rs                                            *)
(***************************************************************************)
\* u8::is_ascii_control: U+0000..U+001F and U+007F
\* the C0 control bytes only
is_c0_control(b) == b <= 31

is_ascii_control(b) == b <= 31 \/ b = DEL

\* util::take_while over bytes[i..]: the index of the first byte that is outside
\* lo..hi, or 0 (ParseError::Incomplete) when the slice ends first
RECURSIVE take_while_in_range(_, _, _, _)
take_while_in_range(bytes, i, lo, hi) ==
    IF i > Len(bytes) THEN 0
    ELSE IF in_range(bytes[i], lo, hi) THEN take_while_in_range(bytes, i + 1, lo, hi)
    ELSE i

\* Argument::single: [ok, value]; value 0 is the absent argument (NonZeroU16::new)
RECURSIVE single_from(_, _, _)
single_from(p, i, value) ==
    IF i > Len(p) THEN [ok |-> TRUE, value |-> value]
    ELSE IF ~in_range(p[i], 48, 57) THEN [ok |-> FALSE, value |-> 0]
    ELSE LET v == value * 10 + (p[i] - 48)
         IN  IF v > U16_MAX THEN [ok |-> FALSE, value |-> 0]
             ELSE single_from(p, i + 1, v)

Argument_single(p) == single_from(p, 1, 0)

with_default(value, default) == IF value = 0 THEN default ELSE value

\* slice::split on the bytes of seps
RECURSIVE split_from(_, _, _, _)
split_from(p, i, start, seps) ==
    IF i > Len(p) THEN << SubSeq(p, start, Len(p)) >>
    ELSE IF p[i] \in seps THEN << SubSeq(p, start, i - 1) >> \o split_from(p, i + 1, i + 1, seps)
    ELSE split_from(p, i + 1, start, seps)

split(p, seps) == split_from(p, 1, 1, seps)

\* Argument::multi::<N>: [ok, values]
Argument_multi(p, N) ==
    LET parts == split(p, {58, 59})
        args  == [i \in 1..Len(parts) |-> Argument_single(parts[i])]
    IN  IF Len(parts) > N \/ \E i \in 1..Len(parts) : ~args[i].ok
        THEN [ok |-> FALSE, values |-> << >>]
        ELSE [ok |-> TRUE,
              values |-> [i \in 1..N |-> IF i <= Len(parts) THEN args[i].value ELSE 0]]

\* ArgumentList::next, first call: the argument before the first ':' or ';'
ArgumentList_next(group) == Argument_single(split(group, {58, 59})[1])

\* the commands one SGR code issues; << >> with ok = FALSE for an unknown code
sgr_code(code) ==
    LET set(st)   == [ok |-> TRUE, cmds |-> << Cmd("set_character_style", st, << >>) >>]
        reset(st) == [ok |-> TRUE, cmds |-> << Cmd("reset_character_style", st, << >>) >>]
    IN  CASE code = 0 -> [ok |-> TRUE,
                          cmds |-> << Cmd("reset_character_style", "ALL", << >>),
                                      Cmd("reset_foreground_color", "", << >>),
                                      Cmd("reset_background_color", "", << >>) >>]
          [] code = 1 -> set("BOLD")
          [] code = 21 -> reset("BOLD")
          [] code = 2 -> set("FAINT")
          [] code = 22 -> reset("FAINT")
          [] code = 3 -> set("ITALIC")
          [] code = 23 -> reset("ITALIC")
          [] code = 4 -> set("UNDERLINE")
          [] code = 24 -> reset("UNDERLINE")
          [] code = 5 -> set("BLINK")
          [] code = 25 -> reset("BLINK")
          [] code = 7 -> set("INVERSE")
          [] code = 27 -> reset("INVERSE")
          [] code = 8 -> set("INVISIBLE")
          [] code = 28 -> reset("INVISIBLE")
          [] code = 9 -> set("STRIKETHROUGH")
          [] code = 29 -> reset("STRIKETHROUGH")
          [] in_range(code, 30, 37) ->
                [ok |-> TRUE, cmds |-> << Cmd("set_foreground_color", "Index", << code - 30 >>) >>]
          [] in_range(code, 90, 97) ->
                [ok |-> TRUE, cmds |-> << Cmd("set_foreground_color", "Index", << code - 90 >>) >>]
          [] code = 39 -> [ok |-> TRUE, cmds |-> << Cmd("reset_foreground_color", "", << >>) >>]
          [] in_range(code, 40, 47) ->
                [ok |-> TRUE, cmds |-> << Cmd("set_background_color", "Index", << code - 30 >>) >>]
          [] in_range(code, 100, 107) ->
                [ok |-> TRUE, cmds |-> << Cmd("set_background_color", "Index", << code - 100 >>) >>]
          [] code = 49 -> [ok |-> TRUE, cmds |-> << Cmd("reset_background_color", "", << >>) >>]
          [] OTHER -> [ok |-> FALSE, cmds |-> << >>]

\* parse_character_attribute: every group is applied to the sink as soon as it is
\* read; an unknown code returns Invalid after the groups before it were applied
RECURSIVE sgr_groups(_, _, _)
sgr_groups(groups, i, cmds) ==
    IF i > Len(groups) THEN [ok |-> TRUE, cmds |-> cmds]
    ELSE LET arg == ArgumentList_next(groups[i])
         IN  IF ~arg.ok THEN [ok |-> FALSE, cmds |-> cmds]
             ELSE LET r == sgr_code(with_default(arg.value, 0))
                  IN  IF ~r.ok THEN [ok |-> FALSE, cmds |-> cmds]
                      ELSE sgr_groups(groups, i + 1, cmds \o r.cmds)

parse_character_attribute(parameters) == sgr_groups(split(parameters, {59}), 1, << >>)

\* ParseResult<()> of the functions that read from the byte iterator: pos is the
\* index of the byte the iterator yields next, cmds the sink calls made so far
Ok(pos, cmds)      == [res |-> "Ok", pos |-> pos, cmds |-> cmds]
Invalid(pos, cmds) == [res |-> "Invalid", pos |-> pos, cmds |-> cmds]
Incomplete         == [res |-> "Incomplete", pos |-> 0, cmds |-> << >>]

\* parse_question_terminator_toggle
parse_question_terminator_toggle(parameters, toggle, pos) ==
    LET arg == Argument_single(parameters)
    IN  IF ~arg.ok THEN Invalid(pos, << >>)
        ELSE CASE with_default(arg.value, 0) = 1 ->
                    Ok(pos, << Cmd("set_application_cursor", toggle, << >>) >>)
               [] with_default(arg.value, 0) = 2004 ->
                    Ok(pos, << Cmd("set_bracketed_paste", toggle, << >>) >>)
               [] OTHER -> Invalid(pos, << >>)

\* parse_escape_question_terminator
parse_escape_question_terminator(parameters, terminator, pos) ==
    CASE terminator = 104 -> parse_question_terminator_toggle(parameters, "Enable", pos)
      [] terminator = 108 -> parse_question_terminator_toggle(parameters, "Disable", pos)
      [] OTHER -> Invalid(pos, << >>)

\* parse_escape_standard_terminator
parse_escape_standard_terminator(parameters, terminator, pos) ==
    LET arg == Argument_single(parameters)
        move(direction) ==
            IF ~arg.ok THEN Invalid(pos, << >>)
            ELSE Ok(pos, << Cmd("move_cursor", direction, << with_default(arg.value, 1) >>) >>)
        clear(op, region) == Ok(pos, << Cmd(op, region, << >>) >>)
    IN  CASE terminator = 109 ->     \* m
                LET r == parse_character_attribute(parameters)
                IN  IF r.ok THEN Ok(pos, r.cmds) ELSE Invalid(pos, r.cmds)
          [] terminator = 65 -> move("Up")
          [] terminator = 66 -> move("Down")
          [] terminator = 67 -> move("Right")
          [] terminator = 68 -> move("Left")
          [] terminator = 72 ->      \* H
                LET m == Argument_multi(parameters, 2)
                IN  IF ~m.ok THEN Invalid(pos, << >>)
                    ELSE Ok(pos, << Cmd("set_cursor_pos", "",
                                        << with_default(m.values[1], 1) - 1,
                                           with_default(m.values[2], 1) - 1 >>) >>)
          [] terminator = 74 ->      \* J
                IF ~arg.ok THEN Invalid(pos, << >>)
                ELSE CASE with_default(arg.value, 0) = 0 -> clear("clear_screen", "ToEnd")
                       [] with_default(arg.value, 0) = 1 -> clear("clear_screen", "ToStart")
                       [] with_default(arg.value, 0) = 2 -> clear("clear_screen", "All")
                       [] with_default(arg.value, 0) = 3 -> clear("clear_scrollback", "")
                       [] OTHER -> Invalid(pos, << >>)
          [] terminator = 75 ->      \* K
                IF ~arg.ok THEN Invalid(pos, << >>)
                ELSE CASE with_default(arg.value, 0) = 0 -> clear("clear_line", "ToEnd")
                       [] with_default(arg.value, 0) = 1 -> clear("clear_line", "ToStart")
                       [] with_default(arg.value, 0) = 2 -> clear("clear_line", "All")
                       [] OTHER -> Invalid(pos, << >>)
          [] OTHER -> Invalid(pos, << >>)

\* parse_control_sequence_parts: [res, parameters, intermediate, terminator, pos]
parse_control_sequence_parts(bytes, i) ==
    LET pend == take_while_in_range(bytes, i, 48, 63)
        iend == IF pend = 0 THEN 0 ELSE take_while_in_range(bytes, pend, 32, 47)
        none == [res |-> "Incomplete", parameters |-> << >>, intermediate |-> << >>,
                 terminator |-> 0, pos |-> 0]
    IN  IF pend = 0 \/ iend = 0 THEN none
        ELSE [res |-> IF in_range(bytes[iend], 64, 126) THEN "Ok" ELSE "Invalid",
              parameters |-> SubSeq(bytes, i, pend - 1),
              intermediate |-> SubSeq(bytes, pend, iend - 1),
              terminator |-> bytes[iend],
              pos |-> iend + 1]

\* parse_escape_control_sequence: the bytes after ESC [
parse_escape_control_sequence(bytes, i) ==
    LET p == parse_control_sequence_parts(bytes, i)
    IN  CASE p.res = "Incomplete" -> Incomplete
          [] p.res = "Invalid" -> Invalid(p.pos, << >>)
          [] p.intermediate # << >> -> Invalid(p.pos, << >>)
          [] p.parameters # << >> /\ p.parameters[1] = 63 ->
                parse_escape_question_terminator(Drop(p.parameters, 1), p.terminator, p.pos)
          [] OTHER -> parse_escape_standard_terminator(p.parameters, p.terminator, p.pos)

\* parse_operating_system_command: the bytes after ESC ]
parse_operating_system_command(bytes, i) ==
    LET nend == take_while_in_range(bytes, i, 48, 57)
        pend == IF nend = 0 THEN 0 ELSE take_while_in_range(bytes, nend, 32, 126)
    IN  IF nend = 0 \/ pend = 0 THEN Incomplete
        ELSE LET numbers    == SubSeq(bytes, i, nend - 1)
                 parameters == SubSeq(bytes, nend, pend - 1)
                 pos        == pend + 1
                 number     == Argument_single(numbers)
                 title      == Drop(parameters, 1)
             IN  IF bytes[pend] # BEL THEN Invalid(pos, << >>)
                 ELSE IF parameters = << >> \/ parameters[1] # 59 THEN Invalid(pos, << >>)
                 ELSE IF title = << 63 >> THEN Invalid(pos, << >>)
                 ELSE IF ~number.ok THEN Invalid(pos, << >>)
                 ELSE CASE with_default(number.value, 0) \in {0, 2} ->
                                Ok(pos, << Cmd("set_window_title", "", title) >>)
                        [] with_default(number.value, 0) \in {1, 3} -> Ok(pos, << >>)
                        [] OTHER -> Invalid(pos, << >>)

\* parse_escape_sequence that takes the end of the input for a malformed
\* sequence instead of an incomplete one
parse_escape_sequence_no_wait(bytes, i) ==
    IF i > Len(bytes) THEN Invalid(i, << >>)
    ELSE CASE bytes[i] = 91 -> parse_escape_control_sequence(bytes, i + 1)
           [] bytes[i] = 93 -> parse_operating_system_command(bytes, i + 1)
           [] bytes[i] = 40 -> IF i + 1 > Len(bytes) THEN Invalid(i + 1, << >>)
                               ELSE Ok(i + 2, << >>)
           [] OTHER -> Invalid(i + 1, << >>)

\* parse_escape_sequence: the bytes after ESC
parse_escape_sequence(bytes, i) ==
    IF i > Len(bytes) THEN Incomplete
    ELSE CASE bytes[i] = 91 -> parse_escape_control_sequence(bytes, i + 1)
           [] bytes[i] = 93 -> parse_operating_system_command(bytes, i + 1)
           [] bytes[i] = 40 -> IF i + 1 > Len(bytes) THEN Incomplete ELSE Ok(i + 2, << >>)
           [] OTHER -> Invalid(i + 1, << >>)

\* parse_control_sequence: the control byte at bytes[i]
parse_control_sequence(bytes, i) ==
    IF i > Len(bytes) THEN Incomplete
    ELSE CASE bytes[i] = BEL -> Ok(i + 1, << Cmd("bell", "", << >>) >>)
           [] bytes[i] = BS -> Ok(i + 1, << Cmd("backspace", "", << >>) >>)
           [] bytes[i] = HT -> Ok(i + 1, << Cmd("tab", "", << >>) >>)
           [] bytes[i] = CR -> Ok(i + 1, << Cmd("carriage_return", "", << >>) >>)
           [] bytes[i] = LF -> Ok(i + 1, << Cmd("line_feed", "", << >>) >>)
           [] bytes[i] = ESC -> parse_escape_sequence(bytes, i + 1)
           [] OTHER -> Invalid(i + 1, << >>)

\* emit_text: [cmds, tail]; tail is the incomplete character the slice ends in
RECURSIVE emit_text(_)
emit_text(bytes) ==
    IF bytes = << >> THEN [cmds |-> << >>, tail |-> << >>]
    ELSE LET u == from_utf8(bytes)
         IN  IF u.error = "ok" THEN [cmds |-> << Cmd("text", "", bytes) >>, tail |-> << >>]
             ELSE LET valid   == Take(bytes, u.valid_up_to)
                      invalid == Drop(bytes, u.valid_up_to)
                      text    == << Cmd("text", "", valid) >>
                  IN  IF u.error = "incomplete" THEN [cmds |-> text, tail |-> invalid]
                      ELSE LET r == emit_text(Drop(invalid, u.error_len))
                           IN  [cmds |-> text
                                         \o << Cmd("invalid_utf8", "", Take(invalid, u.error_len)) >>
                                         \o r.cmds,
                                tail |-> r.tail]

\* the text before a control byte is flushed; a character cut short by the
\* control byte is reported as invalid
\* flush_text without the report of a cut character at the end of the run
flush_text_unreported(cmds, t) == cmds \o t.cmds

flush_text(cmds, t) ==
    cmds \o t.cmds \o (IF t.tail # << >> THEN << Cmd("invalid_utf8", "", t.tail) >> ELSE << >>)

\* the invalid sequence bytes[rem..pos) is reported after what it issued
report_invalid(bytes, rem, r) ==
    r.cmds \o << Cmd("invalid_control_sequence", "", SubSeq(bytes, rem, r.pos - 1)) >>

with_cmds(cmds, r) == [cmds |-> cmds \o r.cmds, tail |-> r.tail]

\* the loop of parse: remaining = bytes[rem..], assumed_text = bytes[txt..]
RECURSIVE parse_loop(_, _, _, _)
\* parse_loop_control that resumes right after the first byte of an invalid
\* sequence instead of after the bytes the iterator consumed
parse_loop_control_resync(bytes, rem, c1, r) ==
    CASE r.res = "Incomplete" -> [cmds |-> c1, tail |-> SubSeq(bytes, rem, Len(bytes))]
      [] r.res = "Ok" -> parse_loop(bytes, r.pos, r.pos, c1 \o r.cmds)
      [] OTHER -> parse_loop(bytes, rem + 1, rem + 1,
                             c1 \o r.cmds
                                \o << Cmd("invalid_control_sequence", "", << bytes[rem] >>) >>)

\* the match on the result r of parse_control_sequence at bytes[rem]
parse_loop_control(bytes, rem, c1, r) ==
    CASE r.res = "Incomplete" -> [cmds |-> c1, tail |-> SubSeq(bytes, rem, Len(bytes))]
      [] r.res = "Ok" -> parse_loop(bytes, r.pos, r.pos, c1 \o r.cmds)
      [] OTHER -> parse_loop(bytes, r.pos, r.pos, c1 \o report_invalid(bytes, rem, r))

parse_loop(bytes, rem, txt, cmds) ==
    IF rem > Len(bytes) THEN with_cmds(cmds, emit_text(SubSeq(bytes, txt, Len(bytes))))
    ELSE IF is_ascii_control(bytes[rem]) THEN
        parse_loop_control(bytes, rem,
                           flush_text(cmds, emit_text(SubSeq(bytes, txt, rem - 1))),
                           parse_control_sequence(bytes, rem))
    ELSE parse_loop(bytes, rem + 1, txt, cmds)

parse(bytes) == parse_loop(bytes, 1, 1, << >>)

(***************************************************************************)
(* Colours and cells: color.rs, grid.rs                                    *)
(***************************************************************************)
Index(i)     == [tag |-> "Index", v |-> << i >>]
Rgb(r, g, b) == [tag |-> "Rgb", v |-> << r, g, b >>]

DEFAULT_FOREGROUND == Index(15)
DEFAULT_BACKGROUND == Index(0)
DEFAULT_CURSOR     == DEFAULT_FOREGROUND

SPACE == 32

GridCell(ch, fg, bg, st) ==
    [character |-> ch, foreground |-> fg, background |-> bg, style |-> st]

\* GridCell::empty
GridCell_empty == GridCell(SPACE, DEFAULT_FOREGROUND, DEFAULT_BACKGROUND, {})

Position(row, col) == [row |-> row, col |-> col]

(***************************************************************************)
(* CharacterGrid: grid.rs.  cells is the row-major Vec, cells[i + 1] being *)
(* the source's cells[i].  An operation that can panic returns             *)
(* [ok, grid]; ok = FALSE is the panic.                                    *)
(***************************************************************************)
\* CharacterGrid::new
CharacterGrid_new(rows, cols) ==
    [rows |-> rows, cols |-> cols, cells |-> [i \in 1..(rows * cols) |-> GridCell_empty]]

max_col(grid) == grid.cols - 1
max_row(grid) == grid.rows - 1

\* impl RangeBounds<u16>: the two bounds, each Included, Excluded or Unbounded
Bound(kind, index) == [kind |-> kind, index |-> index]
Unbounded          == Bound("Unbounded", 0)
Range(a, b)          == [start |-> Bound("Included", a), end |-> Bound("Excluded", b)]   \* a..b
RangeFrom(a)         == [start |-> Bound("Included", a), end |-> Unbounded]              \* a..
RangeTo(b)           == [start |-> Unbounded, end |-> Bound("Excluded", b)]              \* ..b
RangeToInclusive(b)  == [start |-> Unbounded, end |-> Bound("Included", b)]              \* ..=b
RangeInclusive(a, b) == [start |-> Bound("Included", a), end |-> Bound("Included", b)]   \* a..=b
RangeFull            == [start |-> Unbounded, end |-> Unbounded]                         \* ..

\* into_exclusive_range: [start, end), each clamped to max
into_exclusive_range(range, max) ==
    LET start == CASE range.start.kind = "Included" -> range.start.index
                   [] range.start.kind = "Excluded" -> range.start.index + 1
                   [] OTHER -> 0
        end   == CASE range.end.kind = "Included" -> range.end.index + 1
                   [] range.end.kind = "Excluded" -> range.end.index
                   [] OTHER -> max
    IN  [start |-> Min(start, max), end |-> Min(end, max)]

\* cells[from..to].fill(cell) with 0-based from, to: panics when from > to or to > len
slice_fill(cells, from, to, cell) ==
    IF from > to \/ to > Len(cells) THEN [ok |-> FALSE, cells |-> cells]
    ELSE [ok |-> TRUE,
          cells |-> [i \in 1..Len(cells) |-> IF from < i /\ i <= to THEN cell ELSE cells[i]]]

\* CharacterGrid::fill_region
fill_region(grid, row_range, col_range, cell) ==
    LET rows    == into_exclusive_range(row_range, grid.rows)
        columns == into_exclusive_range(col_range, grid.cols)
    IN  IF columns.start = 0 /\ columns.end = max_col(grid) THEN
            \* "skip iterating over every row every column is cleared"
            LET r == slice_fill(grid.cells, rows.start * grid.cols, rows.end * grid.cols, cell)
            IN  [ok |-> r.ok, grid |-> [grid EXCEPT !.cells = r.cells]]
        ELSE IF rows.start < rows.end /\ columns.start > columns.end THEN
            [ok |-> FALSE, grid |-> grid]
        ELSE [ok |-> TRUE,
              grid |-> [grid EXCEPT !.cells =
                  [i \in 1..Len(grid.cells) |->
                      LET row == (i - 1) \div grid.cols
                          col == (i - 1) % grid.cols
                      IN  IF rows.start <= row /\ row < rows.end
                             /\ columns.start <= col /\ col < columns.end
                          THEN cell ELSE grid.cells[i]]]]

\* slice::copy_within(from..to, dest), 0-based: panics when the source range or the
\* destination lies outside the slice; the copy is a memmove
copy_within(cells, from, to, dest) ==
    IF from > to \/ to > Len(cells) \/ dest > Len(cells) - (to - from)
    THEN [ok |-> FALSE, cells |-> cells]
    ELSE [ok |-> TRUE,
          cells |-> [i \in 1..Len(cells) |->
                        IF dest < i /\ i <= dest + (to - from)
                        THEN cells[from + (i - dest)] ELSE cells[i]]]

\* CharacterGrid::copy_rows
copy_rows(grid, row_range, dst_row) ==
    LET rows == into_exclusive_range(row_range, grid.rows)
        r    == copy_within(grid.cells, rows.start * grid.cols, rows.end * grid.cols,
                            dst_row * grid.cols)
    IN  [ok |-> r.ok, grid |-> [grid EXCEPT !.cells = r.cells]]

\* IndexMut<Position>: the assertion of grid[pos]
index_in_bounds(grid, pos) == pos.col < grid.cols /\ pos.row < grid.rows

\* grid[pos], read
cell_at(grid, row, col) == grid.cells[col + row * grid.cols + 1]

(***************************************************************************)
(* Screen: screen.rs.  A screen is a record of the struct's fields plus    *)
(* panicked: a panic (a failed assertion, a slice out of range, todo!())   *)
(* ends the program, so a panicked screen takes no further command.        *)
(***************************************************************************)
Behaviours_default ==
    [show_cursor |-> TRUE, alternate_buffer |-> FALSE, bracketed_paste |-> FALSE]

\* Screen::new
Screen_new(rows, cols) ==
    [title            |-> << 115, 112, 111, 116, 116, 121 >>,     \* "spotty"
     grid             |-> CharacterGrid_new(rows, cols),
     alternate_grid   |-> CharacterGrid_new(rows, cols),
     cursor           |-> Position(0, 0),
     saved_cursor     |-> Position(0, 0),
     cursor_style     |-> "DEFAULT",
     cursor_color     |-> DEFAULT_CURSOR,
     style            |-> {},
     foreground       |-> DEFAULT_FOREGROUND,
     background       |-> DEFAULT_BACKGROUND,
     scrolling_region |-> [start |-> 0, end |-> rows],
     behaviours       |-> Behaviours_default,
     residual_input   |-> << >>,
     panicked         |-> FALSE]

panic(s) == [s EXCEPT !.panicked = TRUE]

\* the screen after a grid operation r = [ok, grid] on its active grid
with_grid(s, r) == IF r.ok THEN [s EXCEPT !.grid = r.grid] ELSE panic(s)

\* resize_grid that reallocates the active grid only
resize_grid_active_only(s, rows, cols) ==
    [s EXCEPT !.grid = CharacterGrid_new(rows, cols),
              !.cursor = Position(0, 0),
              !.scrolling_region = [start |-> 0, end |-> rows]]

\* Screen::resize_grid
resize_grid(s, rows, cols) ==
    [s EXCEPT !.grid = CharacterGrid_new(rows, cols),
              !.alternate_grid = CharacterGrid_new(rows, cols),
              !.cursor = Position(0, 0),
              !.scrolling_region = [start |-> 0, end |-> rows]]

\* Screen::empty_cell
empty_cell(s) == GridCell(SPACE, DEFAULT_FOREGROUND, DEFAULT_BACKGROUND, s.style)

\* Screen::clear_region
clear_region(s, rows, columns) ==
    IF s.panicked THEN s ELSE with_grid(s, fill_region(s.grid, rows, columns, empty_cell(s)))

\* Screen::clear_current_line
clear_current_line(s, columns) ==
    clear_region(s, RangeInclusive(s.cursor.row, s.cursor.row), columns)

\* scroll_up that leaves the exposed rows as they were
scroll_up_no_clear(s, count) ==
    LET copy_start == s.scrolling_region.start + count
        copy_end   == s.scrolling_region.end
    IN  IF s.panicked \/ copy_start > copy_end THEN s
        ELSE with_grid(s, copy_rows(s.grid, Range(copy_start, copy_end),
                                    s.scrolling_region.start))

\* the rows copied (s1) and end - count computed (clear_start): the clear
scroll_up_clear(s, overflow_checks, s1, clear_start) ==
    IF s1.panicked THEN s1
    ELSE IF clear_start.overflow /\ overflow_checks THEN panic(s1)
    ELSE clear_region(s1, Range(clear_start.value, s.scrolling_region.end), RangeFull)

\* start + count computed (copy_start): the guard and the copy
scroll_up_copy(s, count, overflow_checks, copy_start) ==
    IF copy_start.overflow /\ overflow_checks THEN panic(s)
    ELSE IF copy_start.value > s.scrolling_region.end THEN s
    ELSE scroll_up_clear(s, overflow_checks,
                         with_grid(s, copy_rows(s.grid,
                                                Range(copy_start.value, s.scrolling_region.end),
                                                s.scrolling_region.start)),
                         u16_sub(s.scrolling_region.end, count))

\* scroll_up in a build with overflow checks (a debug build), where a u16
\* operation that overflows panics, or without them (a release build), where
\* it wraps
scroll_up_build(s, count, overflow_checks) ==
    IF s.panicked THEN s
    ELSE scroll_up_copy(s, count, overflow_checks, u16_add(s.scrolling_region.start, count))

\* Screen::scroll_up
scroll_up(s, count) == scroll_up_build(s, count, TRUE)

\* Screen::scroll_down
scroll_down(s, count) ==
    LET copy_destination == count
        copy_start       == s.scrolling_region.start
        copy_end         == saturating_sub(s.scrolling_region.end, count)
    IN  IF s.panicked \/ copy_start > copy_end THEN s
        ELSE clear_region(with_grid(s, copy_rows(s.grid, Range(copy_start, copy_end),
                                                 copy_destination)),
                          Range(s.scrolling_region.start, count),
                          RangeFull)

\* advance_row that moves down at the last row of the region instead of scrolling
advance_row_past_end(s) ==
    IF s.panicked THEN s ELSE [s EXCEPT !.cursor.row = @ + 1]

\* Screen::advance_row
advance_row(s) ==
    IF s.panicked THEN s
    ELSE IF s.cursor.row < saturating_sub(s.scrolling_region.end, 1)
    THEN [s EXCEPT !.cursor.row = @ + 1]
    ELSE scroll_up(s, 1)

\* advance_column that wraps as soon as the last column is written
advance_column_eager(s) ==
    IF s.panicked THEN s
    ELSE IF s.cursor.col < s.grid.cols - 1 THEN [s EXCEPT !.cursor.col = @ + 1]
    ELSE advance_row([s EXCEPT !.cursor.col = 0])

\* Screen::advance_column
advance_column(s) ==
    IF s.panicked THEN s
    ELSE IF s.cursor.col < s.grid.cols THEN [s EXCEPT !.cursor.col = @ + 1]
    ELSE advance_row([s EXCEPT !.cursor.col = 0])

\* insert_char that writes every cell with the default attributes
insert_char_plain(s, ch) ==
    LET s1 == IF s.cursor.col = s.grid.cols
              THEN advance_row([s EXCEPT !.cursor.col = 0]) ELSE s
        s2 == IF s1.panicked THEN s1
              ELSE IF ~index_in_bounds(s1.grid, s1.cursor) THEN panic(s1)
              ELSE [s1 EXCEPT !.grid.cells[s1.cursor.col + s1.cursor.row * s1.grid.cols + 1] =
                                  GridCell(ch, DEFAULT_FOREGROUND, DEFAULT_BACKGROUND, {})]
    IN  IF s.panicked THEN s ELSE advance_column(s2)

\* Screen::insert_char
insert_char(s, ch) ==
    LET s1 == IF s.cursor.col = s.grid.cols
              THEN advance_row([s EXCEPT !.cursor.col = 0]) ELSE s
        s2 == IF s1.panicked THEN s1
              ELSE IF ~index_in_bounds(s1.grid, s1.cursor) THEN panic(s1)
              ELSE [s1 EXCEPT !.grid.cells[s1.cursor.col + s1.cursor.row * s1.grid.cols + 1] =
                                  GridCell(ch, s1.foreground, s1.background, s1.style)]
    IN  IF s.panicked THEN s ELSE advance_column(s2)

\* Terminal::text for Screen: insert_char for every character
RECURSIVE insert_chars(_, _, _)
insert_chars(s, cs, i) ==
    IF i > Len(cs) \/ s.panicked THEN s ELSE insert_chars(insert_char(s, cs[i]), cs, i + 1)

text(s, bytes) == insert_chars(s, chars(bytes), 1)

\* invalid_utf8 that only logs and writes nothing
invalid_utf8_dropped(s, bytes) == s

\* Screen::invalid_utf8
invalid_utf8(s, bytes) == text(s, encode_utf8(REPLACEMENT_CHARACTER))

\* tab as one advance_column
tab_one_column(s) == advance_column(s)

\* Screen::tab
RECURSIVE tab(_)
tab(s) ==
    LET s1 == advance_column(s)
    IN  IF s.panicked THEN s
        ELSE IF s1.panicked \/ s1.cursor.col % 8 = 0 THEN s1
        ELSE tab(s1)

\* Screen::backspace
backspace(s) ==
    IF s.cursor.col > 0 THEN [s EXCEPT !.cursor.col = @ - 1]
    ELSE [s EXCEPT !.cursor.col = s.grid.cols - 1]

\* Screen::carriage_return
carriage_return(s) == [s EXCEPT !.cursor.col = 0]

\* Screen::line_feed
line_feed(s) == advance_row(s)

\* Screen::reverse_line_feed
reverse_line_feed(s) ==
    LET s1 == [s EXCEPT !.cursor.col = 0]
    IN  IF s1.cursor.row > s1.scrolling_region.start
        THEN [s1 EXCEPT !.cursor.row = @ - 1]
        ELSE scroll_down(s1, 1)

\* Screen::delete_lines
delete_lines(s, count) ==
    LET clear_end  == Min(saturating_add(s.cursor.row, count), s.scrolling_region.end)
        rows_below == s.scrolling_region.end - clear_end
        copy_end   == s.cursor.row + rows_below
        s1 == with_grid(s, copy_rows(s.grid, Range(clear_end, s.scrolling_region.end),
                                     s.cursor.row))
    IN  IF s.panicked THEN s
        ELSE clear_region(s1, Range(copy_end, s.scrolling_region.end), RangeFull)

\* Screen::insert_lines
insert_lines(s, count) ==
    LET clear_end  == Min(saturating_add(s.cursor.row, count), s.scrolling_region.end)
        rows_below == s.scrolling_region.end - clear_end
        copy_end   == s.cursor.row + rows_below
    IN  IF s.panicked THEN s
        ELSE clear_region(with_grid(s, copy_rows(s.grid, Range(s.cursor.row, copy_end),
                                                 clear_end)),
                          Range(s.cursor.row, clear_end), RangeFull)

\* Screen::move_cursor
move_cursor_unclamped(s, direction, steps) ==
    CASE direction = "Up" -> [s EXCEPT !.cursor.row = saturating_sub(@, steps)]
      [] direction = "Down" -> [s EXCEPT !.cursor.row = saturating_add(@, steps)]
      [] direction = "Left" -> [s EXCEPT !.cursor.col = saturating_sub(@, steps)]
      [] OTHER -> [s EXCEPT !.cursor.col = saturating_add(@, steps)]

move_cursor(s, direction, steps) ==
    CASE direction = "Up" -> [s EXCEPT !.cursor.row = saturating_sub(@, steps)]
      [] direction = "Down" ->
            [s EXCEPT !.cursor.row = Min(saturating_add(@, steps), max_row(s.grid))]
      [] direction = "Left" -> [s EXCEPT !.cursor.col = saturating_sub(@, steps)]
      [] OTHER ->
            [s EXCEPT !.cursor.col = Min(saturating_add(@, steps), max_col(s.grid))]

\* set_cursor_pos that takes the position as it is
set_cursor_pos_unclamped(s, row, col) == [s EXCEPT !.cursor = Position(row, col)]

\* Screen::set_cursor_pos (set_cursor_row, set_cursor_col)
set_cursor_pos(s, row, col) ==
    [s EXCEPT !.cursor = Position(Min(row, max_row(s.grid)), Min(col, max_col(s.grid)))]

\* Screen::save_cursor
save_cursor(s) == [s EXCEPT !.saved_cursor = s.cursor]

\* restore_cursor that takes the saved position as it is
restore_cursor_unclamped(s) == [s EXCEPT !.cursor = s.saved_cursor]

\* Screen::restore_cursor
restore_cursor(s) ==
    [s EXCEPT !.cursor = Position(Min(s.saved_cursor.row, max_row(s.grid)),
                                  Min(s.saved_cursor.col, max_col(s.grid)))]

\* Screen::set_scrolling_region
set_scrolling_region(s, start, end) ==
    [s EXCEPT !.scrolling_region = [start |-> Min(start, s.grid.rows),
                                    end |-> Min(end, s.grid.rows)]]

\* Screen::clear_line
clear_line(s, region) ==
    CASE region = "ToEnd" -> clear_current_line(s, RangeFrom(s.cursor.col))
      [] region = "ToStart" -> clear_current_line(s, RangeToInclusive(s.cursor.col))
      [] OTHER -> clear_current_line(s, RangeFull)

\* Screen::clear_screen
clear_screen(s, region) ==
    CASE region = "ToEnd" ->
            clear_region(clear_current_line(s, RangeFrom(s.cursor.col)),
                         RangeFrom(s.cursor.row + 1), RangeFull)
      [] region = "ToStart" ->
            clear_current_line(clear_region(s, RangeTo(s.cursor.row), RangeFull),
                               RangeToInclusive(s.cursor.col))
      [] OTHER -> clear_region(s, RangeFull, RangeFull)

\* Screen::clear_scrollback: todo!()
clear_scrollback(s) == panic(s)

\* Screen::erase
erase(s, count) ==
    clear_current_line(s, Range(s.cursor.col, saturating_add(s.cursor.col, count)))

\* Screen::set_character_style, reset_character_style
set_character_style(s, styles)   == [s EXCEPT !.style = @ \cup styles]
reset_character_style(s, styles) == [s EXCEPT !.style = @ \ styles]

\* Screen::set_foreground_color .. reset_background_color
set_foreground_color(s, color) == [s EXCEPT !.foreground = color]
reset_foreground_color(s)      == [s EXCEPT !.foreground = DEFAULT_FOREGROUND]
set_background_color(s, color) == [s EXCEPT !.background = color]
reset_background_color(s)      == [s EXCEPT !.background = DEFAULT_BACKGROUND]

\* Screen::set_window_title
set_window_title(s, bytes) == [s EXCEPT !.title = bytes]

\* toggle_behaviour that allocates a new grid instead of keeping the one swapped out
toggle_behaviour_realloc(s, behaviour, toggle) ==
    LET enabled == (toggle = "Enable")
    IN  CASE behaviour = "ShowCursor" -> [s EXCEPT !.behaviours.show_cursor = enabled]
          [] behaviour = "AlternateBuffer" ->
                IF enabled # s.behaviours.alternate_buffer
                THEN [s EXCEPT !.behaviours.alternate_buffer = enabled,
                               !.grid = s.alternate_grid,
                               !.alternate_grid = CharacterGrid_new(s.grid.rows, s.grid.cols)]
                ELSE s
          [] behaviour = "BracketedPaste" -> [s EXCEPT !.behaviours.bracketed_paste = enabled]
          [] OTHER -> s

\* Screen::toggle_behaviour
toggle_behaviour(s, behaviour, toggle) ==
    LET enabled == (toggle = "Enable")
    IN  CASE behaviour = "ShowCursor" -> [s EXCEPT !.behaviours.show_cursor = enabled]
          [] behaviour = "AlternateBuffer" ->
                IF enabled # s.behaviours.alternate_buffer
                THEN [s EXCEPT !.behaviours.alternate_buffer = enabled,
                               !.grid = s.alternate_grid,
                               !.alternate_grid = s.grid]
                ELSE s
          [] behaviour = "BracketedPaste" -> [s EXCEPT !.behaviours.bracketed_paste = enabled]
          [] OTHER -> s

(***************************************************************************)
(* Screen as the decoder's sink, and Screen::process_input                 *)
(***************************************************************************)
\* one call of a Terminal method on the screen.  control_code.rs names the two
\* toggles set_bracketed_paste and set_application_cursor; screen.rs implements
\* them through toggle_behaviour
apply(s, c) ==
    IF s.panicked THEN s
    ELSE CASE c.op = "text" -> text(s, c.n)
           [] c.op = "invalid_utf8" -> invalid_utf8(s, c.n)
           [] c.op = "invalid_control_sequence" -> s
           [] c.op = "bell" -> s
           [] c.op = "tab" -> tab(s)
           [] c.op = "backspace" -> backspace(s)
           [] c.op = "carriage_return" -> carriage_return(s)
           [] c.op = "line_feed" -> line_feed(s)
           [] c.op = "move_cursor" -> move_cursor(s, c.s, c.n[1])
           [] c.op = "set_cursor_pos" -> set_cursor_pos(s, c.n[1], c.n[2])
           [] c.op = "clear_line" -> clear_line(s, c.s)
           [] c.op = "clear_screen" -> clear_screen(s, c.s)
           [] c.op = "clear_scrollback" -> clear_scrollback(s)
           [] c.op = "set_bracketed_paste" -> toggle_behaviour(s, "BracketedPaste", c.s)
           [] c.op = "set_application_cursor" -> toggle_behaviour(s, "ApplicationCursor", c.s)
           [] c.op = "set_character_style" -> set_character_style(s, {c.s})
           [] c.op = "reset_character_style" ->
                reset_character_style(s, IF c.s = "ALL" THEN AllStyles ELSE {c.s})
           [] c.op = "set_foreground_color" -> set_foreground_color(s, Index(c.n[1]))
           [] c.op = "reset_foreground_color" -> reset_foreground_color(s)
           [] c.op = "set_background_color" -> set_background_color(s, Index(c.n[1]))
           [] c.op = "reset_background_color" -> reset_background_color(s)
           [] c.op = "set_window_title" -> set_window_title(s, c.n)
           [] OTHER -> s

\* the sink calls of one parse, in order: [screen, issued]; a call that panics is
\* the last one issued
RECURSIVE apply_all(_, _, _)
apply_all_next(s1, cmds, i) ==
    IF s1.panicked THEN [screen |-> s1, issued |-> Take(cmds, i)]
    ELSE apply_all(s1, cmds, i + 1)

apply_all(s, cmds, i) ==
    IF i > Len(cmds) THEN [screen |-> s, issued |-> cmds]
    ELSE apply_all_next(apply(s, cmds[i]), cmds, i)

\* process_input that forgets the unparsed tail
drop_residual(r, tail) == r

\* the unparsed tail is kept for the next call
keep_residual(r, tail) ==
    IF r.screen.panicked THEN r
    ELSE [screen |-> [r.screen EXCEPT !.residual_input = tail], issued |-> r.issued]

\* the commands of p are applied to s
\* process_input that puts the tail after the bytes held before
apply_parsed_after_held(s, p) ==
    keep_residual(apply_all([s EXCEPT !.residual_input = << >>], p.cmds, 1),
                  s.residual_input \o p.tail)

apply_parsed(s, p) ==
    keep_residual(apply_all([s EXCEPT !.residual_input = << >>], p.cmds, 1), p.tail)

\* Screen::process_input with the calls it made on the screen: [screen, issued]
process_input_calls(s, input) ==
    IF s.panicked THEN [screen |-> s, issued |-> << >>]
    ELSE apply_parsed(s, parse(s.residual_input \o input))

\* Screen::process_input
process_input(s, input) == process_input_calls(s, input).screen

(***************************************************************************)
(* The reader thread's decoder: TerminalCode::parse of tty.rs.  A code is  *)
(* a record [code, s, n]: the variant of TerminalCode, its enumerated      *)
(* field and its numeric or string (byte sequence) field.  text is valid   *)
(* UTF-8; positions are byte indexes, a character being stepped over whole. *)
(***************************************************************************)
Code(variant, s, n) == [code |-> variant, s |-> s, n |-> n]

\* ParseResult<TerminalCode> with the position chars is left at
CodeOk(code, pos)  == [res |-> "Ok", code |-> code, pos |-> pos]
CodeErr(error, pos) == [res |-> error, code |-> Code("", "", << >>), pos |-> pos]

\* the position after the character at text[i]
after_char(str, i) == i + utf8_char_width(str[i])

\* tty.rs take_while: the end of the run of bytes in lo..hi from text[i], or 0
\* (Incomplete) when the text is empty there or the run reaches its end
tty_take_while_in_range(str, i, lo, hi) == take_while_in_range(str, i, lo, hi)

\* ControlSequenceArguments::get_default
get_default(values, index, default) == IF values[index + 1] = 0 THEN default ELSE values[index + 1]

\* parse_control_sequence_arguments: [ok, values, index]; the inputs of the
\* model hold fewer than five digits, so no value leaves the u16 range
RECURSIVE parse_control_sequence_arguments_from(_, _, _)
parse_control_sequence_arguments_from(input, k, acc) ==
    IF ~acc.ok \/ k > Len(input) THEN acc
    ELSE parse_control_sequence_arguments_from(input, k + 1,
            IF in_range(input[k], 48, 57)
            THEN [acc EXCEPT !.values[acc.index + 1] = @ * 10 + (input[k] - 48)]
            ELSE IF input[k] \in {58, 59}
            THEN [acc EXCEPT !.index = @ + 1, !.ok = acc.index + 1 < 5]
            ELSE [acc EXCEPT !.ok = FALSE])

parse_control_sequence_arguments(input) ==
    parse_control_sequence_arguments_from(input, 1,
        [ok |-> TRUE, values |-> << 0, 0, 0, 0, 0 >>, index |-> 0])

\* parse_standard_terminator
parse_standard_terminator(values, ch, pos) ==
    CASE ch = 65 -> CodeOk(Code("MoveCursor", "Up", << get_default(values, 0, 1) >>), pos)
      [] ch = 66 -> CodeOk(Code("MoveCursor", "Down", << get_default(values, 0, 1) >>), pos)
      [] ch = 67 -> CodeOk(Code("MoveCursor", "Right", << get_default(values, 0, 1) >>), pos)
      [] ch = 68 -> CodeOk(Code("MoveCursor", "Left", << get_default(values, 0, 1) >>), pos)
      [] ch = 72 ->
            CodeOk(Code("SetCursorPos", "",
                        << get_default(values, 0, 1) - 1, get_default(values, 0, 1) - 1 >>), pos)
      [] ch = 74 ->
            CASE values[1] = 0 -> CodeOk(Code("ClearScreenToEnd", "", << >>), pos)
              [] values[1] = 1 -> CodeOk(Code("ClearScreenToStart", "", << >>), pos)
              [] values[1] = 2 -> CodeOk(Code("ClearScreen", "", << >>), pos)
              [] values[1] = 3 -> CodeOk(Code("ClearScreenAndScrollback", "", << >>), pos)
              [] OTHER -> CodeErr("Invalid", pos)
      [] ch = 75 ->
            CASE values[1] = 0 -> CodeOk(Code("ClearLineToEnd", "", << >>), pos)
              [] values[1] = 1 -> CodeOk(Code("ClearLineToStart", "", << >>), pos)
              [] values[1] = 2 -> CodeOk(Code("ClearLine", "", << >>), pos)
              [] OTHER -> CodeErr("Invalid", pos)
      [] ch = 88 -> CodeOk(Code("Erase", "", << get_default(values, 0, 1) >>), pos)
      [] OTHER -> CodeErr("Invalid", pos)

\* the arguments, when well formed, select the code
standard_sequence(arguments, terminator, pos) ==
    IF arguments.ok THEN parse_standard_terminator(arguments.values, terminator, pos)
    ELSE CodeErr("Invalid", pos)

\* the match of parse_ansi_control_sequence on its parts
ansi_control_sequence_of(parameters, intermediate, terminator, pos) ==
    CASE parameters = << 63, 50, 48, 48, 52 >> /\ intermediate = << >> /\ terminator = 104 ->
            CodeOk(Code("SetBracketedPaste", "true", << >>), pos)
      [] parameters = << 63, 50, 48, 48, 52 >> /\ intermediate = << >> /\ terminator = 108 ->
            CodeOk(Code("SetBracketedPaste", "false", << >>), pos)
      [] parameters = << 63, 49 >> /\ intermediate = << >> /\ terminator = 104 ->
            CodeOk(Code("SetApplicationCursor", "true", << >>), pos)
      [] parameters = << 63, 49 >> /\ intermediate = << >> /\ terminator = 108 ->
            CodeOk(Code("SetApplicationCursor", "false", << >>), pos)
      [] intermediate # << >> -> CodeErr("Invalid", pos)
      [] OTHER -> standard_sequence(parse_control_sequence_arguments(parameters), terminator, pos)

\* tty.rs parse_control_sequence_parts, given the ends of the two runs
tty_parts(str, i, pend, iend) ==
    IF pend = 0 \/ iend = 0 THEN CodeErr("Incomplete", 0)
    ELSE IF ~in_range(str[iend], 64, 127) THEN CodeErr("Invalid", after_char(str, iend))
    ELSE ansi_control_sequence_of(SubSeq(str, i, pend - 1), SubSeq(str, pend, iend - 1),
                                  str[iend], iend + 1)

tty_intermediate_end(str, pend) ==
    IF pend = 0 THEN 0 ELSE tty_take_while_in_range(str, pend, 32, 47)

tty_parts_from(str, i, pend) == tty_parts(str, i, pend, tty_intermediate_end(str, pend))

\* parse_ansi_control_sequence: the characters after ESC [
parse_ansi_control_sequence(str, i) ==
    tty_parts_from(str, i, tty_take_while_in_range(str, i, 48, 63))

\* the match of tty.rs parse_operating_system_command on its parts
tty_osc_of(numbers, parameters, terminator, pos) ==
    IF terminator # BEL THEN CodeErr("Invalid", pos)
    ELSE IF parameters = << >> \/ parameters[1] # 59 THEN CodeErr("Invalid", pos)
    ELSE CASE numbers \in { << 48 >>, << 50 >> } ->
                CodeOk(Code("SetWindowTitle", "", Drop(parameters, 1)), pos)
           [] numbers \in { << 49 >>, << 51 >> } -> CodeErr("Ignored", pos)
           [] OTHER -> CodeErr("Invalid", pos)

tty_osc_parts(str, i, nend, pend) ==
    IF nend = 0 \/ pend = 0 THEN CodeErr("Incomplete", 0)
    ELSE tty_osc_of(SubSeq(str, i, nend - 1), SubSeq(str, nend, pend - 1),
                    str[pend], after_char(str, pend))

tty_osc_parameters_end(str, nend) ==
    IF nend = 0 THEN 0 ELSE tty_take_while_in_range(str, nend, 32, 126)

tty_osc_from(str, i, nend) == tty_osc_parts(str, i, nend, tty_osc_parameters_end(str, nend))

\* tty.rs parse_operating_system_command: the characters after ESC ]
tty_parse_operating_system_command(str, i) ==
    tty_osc_from(str, i, tty_take_while_in_range(str, i, 48, 57))

\* the match on the control character at text[i] (TerminalCode::parse)
tty_control(str, i) ==
    CASE str[i] = BEL -> CodeOk(Code("Bell", "", << >>), i + 1)
      [] str[i] = BS -> CodeOk(Code("Backspace", "", << >>), i + 1)
      [] str[i] = HT -> CodeOk(Code("Tab", "", << >>), i + 1)
      [] str[i] = CR -> CodeOk(Code("CarriageReturn", "", << >>), i + 1)
      [] str[i] = LF -> CodeOk(Code("LineFeed", "", << >>), i + 1)
      [] str[i] = ESC ->
            IF i + 1 > Len(str) THEN CodeErr("Incomplete", 0)
            ELSE CASE str[i + 1] = 91 -> parse_ansi_control_sequence(str, i + 2)
                   [] str[i + 1] = 93 -> tty_parse_operating_system_command(str, i + 2)
                   [] str[i + 1] = 40 ->
                        IF i + 2 > Len(str) THEN CodeErr("Incomplete", 0)
                        ELSE CodeErr("Ignored", after_char(str, i + 2))
                   [] str[i + 1] \in {61, 62} -> CodeErr("Ignored", i + 2)
                   [] OTHER -> CodeErr("Invalid", after_char(str, i + 1))
      [] OTHER -> CodeErr("Invalid", i + 1)

\* the text between two control characters, when there is any
text_code(str, from, to) ==
    IF from <= to THEN << Code("Text", "", SubSeq(str, from, to)) >> ELSE << >>

\* TerminalCode::parse: [codes, rest]; chars is at text[i..], unprocessed
\* is text[un..]
RECURSIVE TerminalCode_parse_loop(_, _, _, _)
\* the match on parse_result r for the control character at text[i]
TerminalCode_parse_result(str, i, codes, r) ==
    CASE r.res = "Incomplete" -> [codes |-> codes, rest |-> SubSeq(str, i, Len(str))]
      [] r.res = "Ok" -> TerminalCode_parse_loop(str, r.pos, r.pos, Append(codes, r.code))
      [] r.res = "Invalid" ->
            TerminalCode_parse_loop(str, r.pos, r.pos,
                                    Append(codes, Code("Unknown", "", SubSeq(str, i, r.pos - 1))))
      [] OTHER ->
            TerminalCode_parse_loop(str, r.pos, r.pos,
                                    Append(codes, Code("Ignored", "", SubSeq(str, i, r.pos - 1))))

TerminalCode_parse_loop(str, i, un, codes) ==
    IF i > Len(str) THEN [codes |-> codes \o text_code(str, un, Len(str)), rest |-> << >>]
    ELSE IF is_ascii_control(str[i]) THEN
        TerminalCode_parse_result(str, i, codes \o text_code(str, un, i - 1),
                                  tty_control(str, i))
    ELSE TerminalCode_parse_loop(str, i + 1, un, codes)

TerminalCode_parse(str) == TerminalCode_parse_loop(str, 1, 1, << >>)

(***************************************************************************)
(* The reader thread: Terminal::handle_terminal_output of tty.rs           *)
(***************************************************************************)
ReplacementChar == Code("Char", "", << REPLACEMENT_CHARACTER >>)

\* the inner loop of handle_terminal_output on buffer[..buffer_end]:
\* [codes, rest], rest being the bytes kept in the buffer for the next read
RECURSIVE reader_decode(_, _)
\* the Ok arm: the text is parsed, what parse returns is kept
reader_all_valid(codes, p) == [codes |-> codes \o p.codes, rest |-> p.rest]

\* the Err arm: p is the parse of the valid part, invalid the bytes after it
reader_invalid(codes, p, invalid) ==
    IF Len(invalid) < 4
    THEN [codes |-> codes \o p.codes \o (IF p.rest # << >> THEN << ReplacementChar >> ELSE << >>),
          rest |-> invalid]
    ELSE reader_decode(Drop(invalid, 1), codes \o p.codes \o << ReplacementChar >>)

reader_match(bytes, codes, u) ==
    IF u.error = "ok" THEN reader_all_valid(codes, TerminalCode_parse(bytes))
    ELSE reader_invalid(codes, TerminalCode_parse(Take(bytes, u.valid_up_to)),
                        Drop(bytes, u.valid_up_to))

reader_decode(bytes, codes) == reader_match(bytes, codes, from_utf8(bytes))

\* Terminal::try_read on the output queue, flume's try_recv: a queued message
\* is returned first; Disconnected (Closed) needs an empty queue and the sender
\* dropped, which happens when the reader thread has ended
try_read_closed_early(queue, sender_alive) ==
    IF ~sender_alive THEN "Closed" ELSE IF queue # << >> THEN "Ok" ELSE "Empty"

try_read(queue, sender_alive) ==
    IF queue # << >> THEN "Ok" ELSE IF sender_alive THEN "Empty" ELSE "Closed"

(***************************************************************************)
(* The writer thread: Terminal::handle_terminal_input of tty.rs.  The      *)
(* writer is a BufWriter over the pseudo-terminal: [buf, file], file being *)
(* the bytes the pseudo-terminal has received.  Writes succeed.            *)
(***************************************************************************)
\* TerminalInput, as the bytes the writer thread writes for it
TerminalInput_Char(ch) == encode_utf8(ch)
TerminalInput_Bytes(bytes) == bytes

\* BufWriter::write_all; the buffer is taken large enough to hold anything
\* written between two flushes, so that only flush empties it
write_all(w, bytes) == [w EXCEPT !.buf = @ \o bytes]

\* BufWriter::flush, also run when the writer is dropped
flush(w) == [buf |-> << >>, file |-> w.file \o w.buf]

\* a writer thread that goes back to recv without flushing
on_empty_no_flush(w) == w

\* the arm Err(TryRecvError::Empty) of the writer loop
on_empty(w) == flush(w)

(***************************************************************************)
(* render/texture_atlas.rs: the free ranges of a row of the atlas          *)
(***************************************************************************)
FreeRange(start, end) == [start |-> start, end |-> end]

FreeRange_contains(r, x) == r.start <= x /\ x < r.end

None    == [some |-> FALSE]
Some(v) == [some |-> TRUE, value |-> v]

\* a_iter.next() when a_iter stands at position i of v
iter_next(v, i) == IF i <= Len(v) THEN Some(v[i]) ELSE None

\* the range pushed for two ranges that intersect, short.end <= long.end
overlap_is_short(short, long) == short

overlap(short, long) ==
    IF short.start <= long.start
    THEN FreeRange(long.start, short.end)
    ELSE short

RECURSIVE keep_loop(_, _, _, _, _, _)
\* the loops 'b and 'a: b is bv[bi], a_iter stands at position ai of av,
\* next_a is the Option held and out the intersection so far
keep_loop(av, bv, bi, ai, next_a, out) ==
    IF bi > Len(bv) \/ ~next_a.some
    THEN out                                    \* bv is exhausted, or break 'b
    ELSE LET a == next_a.value
             b == bv[bi]
         IN  IF a.end <= b.start
             THEN keep_loop(av, bv, bi, ai + 1, iter_next(av, ai), out)
             ELSE IF a.start >= b.end
             THEN keep_loop(av, bv, bi + 1, ai, next_a, out)
             ELSE IF a.end <= b.end
             THEN keep_loop(av, bv, bi, ai + 1, iter_next(av, ai),
                            Append(out, overlap(a, b)))
             ELSE keep_loop(av, bv, bi, ai, Some(FreeRange(b.end, a.end)),
                            Append(out, overlap(b, a)))

keep_intersection(av, bv) == keep_loop(av, bv, 1, 2, iter_next(av, 1), << >>)

\* TextureAtlas::new: size rows, each one free range [0, size); row y of the
\* atlas is rows[y + 1]
TextureAtlas_new(size) ==
    [size |-> size, rows |-> [y \in 1..size |-> << FreeRange(0, size) >>]]

FreeRange_len(r) == r.end - r.start

\* FreeRange::split: the parts before x and from x on, of a range that contains x
FreeRange_split(r, x) ==
    IF FreeRange_contains(r, x)
    THEN Some(<< FreeRange(r.start, x), FreeRange(x, r.end) >>)
    ELSE None

\* columns.retain(|range| range.len() >= width), and the filter of the same
\* condition
retain(v, width) == SelectSeq(v, LAMBDA r : FreeRange_len(r) >= width)

\* one turn of the loop over the rows of the rectangle: the ranges kept
kept_columns(columns, ranges, width) == retain(keep_intersection(columns, ranges), width)

RECURSIVE columns_from(_, _, _, _, _)
\* for y in y..y + height { columns = keep_intersection(..); retain; break if
\* empty }: the loop stands at row y of the rows up to y_end (excluded)
columns_from(rows, y, y_end, width, columns) ==
    IF y >= y_end
    THEN columns
    ELSE IF kept_columns(columns, rows[y + 1], width) = << >>
    THEN << >>
    ELSE columns_from(rows, y + 1, y_end, width, kept_columns(columns, rows[y + 1], width))

\* min_by_key(|range| range.len()): the first of the shortest ranges
min_by_len(v) ==
    IF v = << >>
    THEN None
    ELSE Some(v[CHOOSE i \in 1..Len(v) :
                  \A j \in 1..Len(v) :
                      /\ FreeRange_len(v[i]) <= FreeRange_len(v[j])
                      /\ j < i => FreeRange_len(v[i]) < FreeRange_len(v[j])])

\* ranges.remove(i) and ranges.insert(i + 1, after) of a Vec, i from 1
Vec_remove(v, i) == SubSeq(v, 1, i - 1) \o SubSeq(v, i + 1, Len(v))
Vec_insert_after(v, i, e) == SubSeq(v, 1, i) \o << e >> \o SubSeq(v, i + 1, Len(v))

\* the body of `if let Some((before, rest)) = ranges[i].split(x)`: the row
\* with [x, x + width) taken out of ranges[i]; rest.split(x + width).unwrap()
\* panics when rest does not contain x + width
take_out(ranges, i, x, width, before, rest) ==
    IF rest.end = x + width
    THEN [panic |-> FALSE,
          ranges |-> IF FreeRange_len(before) = 0
                     THEN Vec_remove(ranges, i)
                     ELSE [ranges EXCEPT ![i] = before]]
    ELSE IF ~FreeRange_split(rest, x + width).some
    THEN [panic |-> TRUE, ranges |-> ranges]
    ELSE [panic |-> FALSE,
          ranges |-> IF FreeRange_len(before) = 0
                     THEN [ranges EXCEPT ![i] = FreeRange_split(rest, x + width).value[2]]
                     ELSE Vec_insert_after([ranges EXCEPT ![i] = before], i,
                                           FreeRange_split(rest, x + width).value[2])]

RECURSIVE reserve_row(_, _, _, _)
\* for i in 0..ranges.len(): the first range that contains x is split, then break
reserve_row(ranges, i, x, width) ==
    IF i > Len(ranges)
    THEN [panic |-> FALSE, ranges |-> ranges]
    ELSE IF FreeRange_split(ranges[i], x).some
    THEN take_out(ranges, i, x, width, FreeRange_split(ranges[i], x).value[1],
                  FreeRange_split(ranges[i], x).value[2])
    ELSE reserve_row(ranges, i + 1, x, width)

\* the second loop over the rows y .. y + height of reserve, and its return
reserve_rows(a, x, y, width, height) ==
    [panic  |-> \E r \in (y + 1)..(y + height) : reserve_row(a.rows[r], 1, x, width).panic,
     offset |-> Some(<< x, y >>),
     atlas  |-> [a EXCEPT !.rows =
                    [r \in 1..a.size |->
                        IF y + 1 <= r /\ r <= y + height
                        THEN reserve_row(a.rows[r], 1, x, width).ranges
                        ELSE a.rows[r]]]]

\* x_range of the turn for row y
x_range_at(a, y, width, height) ==
    min_by_len(retain(columns_from(a.rows, y, y + height, width,
                                   << FreeRange(0, a.size) >>), width))

RECURSIVE reserve_from(_, _, _, _)
\* for y in 0..self.size.saturating_sub(height), standing at y
reserve_from(a, y, width, height) ==
    IF y >= saturating_sub(a.size, height)
    THEN [panic |-> FALSE, offset |-> None, atlas |-> a]
    ELSE IF ~x_range_at(a, y, width, height).some
    THEN reserve_from(a, y + 1, width, height)                     \* continue
    ELSE reserve_rows(a, x_range_at(a, y, width, height).value.start, y, width, height)

\* reserve always from the first row, whatever the rows hold
reserve_first_row(a, width, height) ==
    IF height >= a.size \/ width > a.size
    THEN [panic |-> FALSE, offset |-> None, atlas |-> a]
    ELSE reserve_rows(a, 0, 0, width, height)

\* TextureAtlas::reserve
reserve(a, width, height) == reserve_from(a, 0, width, height)

(***************************************************************************)
(* State.  The scenarios share the module;    each specification drives one *)
(* group of variables and leaves the others at rest.                       *)
(***************************************************************************)
VARIABLES
    \* decoder scenario: one input fed whole to one screen and in two chunks to another
    input,          \* the byte sequence b
    cut,            \* the split point k: the chunks are b[0..k) and b[k..)
    whole,          \* the screen fed b in one call of process_input
    wholeLog,       \* the sink calls made on it
    wholeDone,      \* whether that call was made
    chunked,        \* the screen fed the two chunks
    chunkedLog,     \* the sink calls made on it, over both calls
    chunks,         \* the number of chunks fed so far (0..2)
    \* screen scenario: one Terminal method called on a screen
    screen,         \* the screen
    prev,           \* the screen before the last call
    lastOp,         \* the last call, a command record; op = "none" before any
    left,           \* how many more calls are made on the screen
    initial,        \* the screen before the first call
    held,           \* the primary grid as it was when the alternate buffer was
                    \* last enabled; valid until a resize
    scrolled,       \* the call before the last one if it was scroll_up, or NoOp
    \* output pipeline: pseudo-terminal -> reader thread -> queue -> consumer
    stream,         \* the bytes the child writes to the pseudo-terminal, in all
    fed,            \* how many of them the reader has read
    rbuf,           \* buffer[..valid_until] of the reader
    rpc,            \* the reader thread: "read", "send", "wake" or "done"
    events,         \* what the reader thread has done so far: "read", "send", "wake"
    codes,          \* the reader's Vec of codes, to be sent
    outQ,           \* the output queue: a sequence of messages (Vec<TerminalCode>)
    enqueued,       \* every message the reader has sent, in order
    received,       \* every message try_read has returned, in order
    lastRead,       \* the result of the last try_read: "none", "Ok", "Empty", "Closed"
    seen,           \* the queue length and the reader's liveness at that try_read
    \* input pipeline: UI -> queue -> writer thread -> pseudo-terminal
    inQ,            \* the input queue: a sequence of chunks (byte sequences)
    uiAlive,        \* whether the Terminal (the sender) has not been dropped
    accepted,       \* every chunk the queue has accepted, in order
    wpc,            \* the writer thread: "recv", "item", "empty", "exit" or "done"
    item,           \* next_item when wpc = "item"
    writer,         \* the BufWriter and the pseudo-terminal behind it
    \* frame scenario: a child that never stops writing, the reader thread, the
    \* queue, and the UI thread's handler of EventsCleared
    burstPc,        \* the reader thread: "read", "send" or "wake"
    burstCodes,     \* the reader's Vec of codes, to be sent
    frameQ,         \* the output queue
    ui,             \* the UI thread: "idle" (outside the handler), "drain" (at
                    \* try_read in its loop) or "render" (past the loop)
    uiCursor,       \* the cursor of main.rs
    \* atlas scenario: keep_intersection applied to two lists of free ranges
    atlasColumns,   \* the first list, columns in reserve
    atlasRow,       \* the second list, a row of the atlas
    intersection,   \* the list returned
    computed,       \* whether keep_intersection has been called
    \* threads scenario: the UI, writer and reader threads, the two queues and
    \* the pseudo-terminal between them and the child
    uiAt,           \* the UI thread: "events" (between handlers), "send" (in
                    \* input.send of send_char) or "drain" (in the loop of try_read)
    inputFill,      \* how many items the input queue holds
    writerAt,       \* the writer thread: "recv", "item" or "empty"
    buffered,       \* how many items the BufWriter holds
    toChild,        \* how many items written to the pseudo-terminal the child
                    \* has not read
    fromChild,      \* how many items written by the child the reader has not read
    readerAt,       \* the reader thread: "read", "send" or "wake"
    outputFill,     \* how many messages the output queue holds
    \* reserve scenario: a TextureAtlas and the rectangles reserve has returned
    atlas,          \* the TextureAtlas: its size and its rows of free ranges
    rectangles,     \* the rectangles returned so far, in order
    panicked        \* whether a call of reserve has panicked

parseVars  == << input, cut, whole, wholeLog, wholeDone, chunked, chunkedLog, chunks >>
screenVars == << screen, prev, lastOp, left, initial, held, scrolled >>
outVars    == << stream, fed, rbuf, rpc, events, codes, outQ, enqueued, received,
                 lastRead, seen >>
inVars     == << inQ, uiAlive, accepted, wpc, item, writer >>
frameVars  == << burstPc, burstCodes, frameQ, ui, uiCursor >>
atlasVars  == << atlasColumns, atlasRow, intersection, computed >>
threadVars == << uiAt, inputFill, writerAt, buffered, toChild, fromChild, readerAt,
                 outputFill >>
reserveVars == << atlas, rectangles, panicked >>
vars       == << parseVars, screenVars, outVars, inVars, frameVars, atlasVars,
                 threadVars, reserveVars >>

(***************************************************************************)
(* Bounds of the model                                                     *)
(***************************************************************************)
Rows == 3
Cols == 2
MaxFragments == 2
MaxStream == 3          \* bytes in the child's output stream
BUFFER_SIZE == 8        \* bytes in the reader's buffer (8 * 1024 in tty.rs)
QueueCapacity == 2      \* flume::bounded(32) in tty.rs
MaxChunks == 3          \* chunks the UI sends
MaxCalls == 2           \* calls made on one screen in a session

NoOp == Cmd("none", "", << >>)

ParseAtRest ==
    /\ input = << >> /\ cut = 0
    /\ whole = Screen_new(Rows, Cols) /\ wholeLog = << >> /\ wholeDone = FALSE
    /\ chunked = Screen_new(Rows, Cols) /\ chunkedLog = << >> /\ chunks = 0

NotHeld == [valid |-> FALSE, grid |-> CharacterGrid_new(0, 0)]

ScreenAtRest ==
    /\ screen = Screen_new(Rows, Cols) /\ prev = Screen_new(Rows, Cols) /\ lastOp = NoOp
    /\ left = 0 /\ initial = Screen_new(Rows, Cols) /\ held = NotHeld /\ scrolled = NoOp

NotSeen == [queued |-> 0, alive |-> TRUE]

OutAtRest ==
    /\ stream = << >> /\ fed = 0 /\ rbuf = << >> /\ rpc = "read" /\ codes = << >>
    /\ events = << >>
    /\ outQ = << >> /\ enqueued = << >> /\ received = << >>
    /\ lastRead = "none" /\ seen = NotSeen

InAtRest ==
    /\ inQ = << >> /\ uiAlive = TRUE /\ accepted = << >>
    /\ wpc = "recv" /\ item = << >> /\ writer = [buf |-> << >>, file |-> << >>]

FrameAtRest ==
    /\ burstPc = "read" /\ burstCodes = << >> /\ frameQ = << >>
    /\ ui = "idle" /\ uiCursor = Position(0, 0)

AtlasAtRest ==
    /\ atlasColumns = << >> /\ atlasRow = << >> /\ intersection = << >> /\ computed = FALSE

ThreadsAtRest ==
    /\ uiAt = "events" /\ inputFill = 0
    /\ writerAt = "recv" /\ buffered = 0
    /\ toChild = 0 /\ fromChild = 0
    /\ readerAt = "read" /\ outputFill = 0

ReserveAtRest ==
    /\ atlas = TextureAtlas_new(0) /\ rectangles = << >> /\ panicked = FALSE

(***************************************************************************)
(* Decoder scenario                                                        *)
(***************************************************************************)
\* complete sequences the decoder recognizes
RecognizedSequences ==
    { << ESC, 91, 50, 74 >>,                       \* ESC [ 2 J
      << ESC, 91, 75 >>,                           \* ESC [ K
      << ESC, 91, 50, 59, 50, 72 >>,               \* ESC [ 2 ; 2 H
      << ESC, 91, 65 >>,                           \* ESC [ A
      << ESC, 91, 52, 59, 51, 50, 109 >>,          \* ESC [ 4 ; 32 m
      << ESC, 91, 63, 50, 48, 48, 52, 104 >>,      \* ESC [ ? 2004 h
      << ESC, 93, 48, 59, 116, BEL >>,             \* ESC ] 0 ; t BEL
      << ESC, 40, 66 >> }                          \* ESC ( B

\* SGR sequences that hold an unknown code after valid groups
UnknownSgrSequences ==
    { << ESC, 91, 49, 59, 51, 49, 59, 57, 57, 109 >> }   \* ESC [ 1 ; 31 ; 99 m

\* the pieces inputs are built from: sequences, text, control bytes, stray bytes
Fragments ==
    RecognizedSequences \cup UnknownSgrSequences
        \cup { << 65 >>,                  \* "A"
               << 195, 169 >>,            \* U+00E9, two bytes
               << LF >>,
               << 255 >>,                 \* never valid in UTF-8
               << ESC >>,                 \* a stray ESC
               << ESC, 91, 51, 74 >> }    \* ESC [ 3 J

RECURSIVE Concats(_)
Concats(n) ==
    IF n = 0 THEN { << >> }
    ELSE LET shorter == Concats(n - 1)
         IN  shorter \cup { a \o f : a \in shorter, f \in Fragments }

\* CSI r ; c H with its two arguments as written, 0 standing for an absent one
CursorPositionSequences ==
    { [bytes |-> << ESC, 91, 72 >>, r |-> 0, c |-> 0],                    \* ESC [ H
      [bytes |-> << ESC, 91, 48, 59, 48, 72 >>, r |-> 0, c |-> 0],        \* ESC [ 0 ; 0 H
      [bytes |-> << ESC, 91, 59, 50, 72 >>, r |-> 0, c |-> 2],            \* ESC [ ; 2 H
      [bytes |-> << ESC, 91, 51, 72 >>, r |-> 3, c |-> 0],                \* ESC [ 3 H
      [bytes |-> << ESC, 91, 50, 59, 50, 72 >>, r |-> 2, c |-> 2],        \* ESC [ 2 ; 2 H
      [bytes |-> << ESC, 91, 57, 59, 57, 72 >>, r |-> 9, c |-> 9] }       \* ESC [ 9 ; 9 H

\* A ESC [ 2 ; 2 H B
PositionExample == << 65, ESC, 91, 50, 59, 50, 72, 66 >>

\* SGR sequences that set attributes: underline and foreground 2; background
\* (code 44); bold
AttributeSequences ==
    { << ESC, 91, 52, 59, 51, 50, 109 >>,      \* ESC [ 4 ; 32 m
      << ESC, 91, 52, 52, 109 >>,              \* ESC [ 44 m
      << ESC, 91, 49, 109 >> }                 \* ESC [ 1 m

\* ESC [ 31 m X ESC [ 0 m Y
ColourExample == << ESC, 91, 51, 49, 109, 88, ESC, 91, 48, 109, 89 >>

\* sequences the decoder reports as invalid, none of which calls the sink
\* before the report
PlainInvalidSequences ==
    { << 1 >>,                                 \* SOH, a control byte without a meaning
      << ESC, 88 >>,                           \* ESC X
      << ESC, 91, 53, 90 >>,                   \* ESC [ 5 Z: unknown terminator
      << ESC, 91, 63, 55, 104 >>,              \* ESC [ ? 7 h: unknown private mode
      << ESC, 91, 49, 33, 65 >>,               \* ESC [ 1 ! A: intermediate byte
      << ESC, 91, 49, 1 >>,                    \* ESC [ 1 SOH: malformed terminator
      << ESC, 93, 57, 59, 116, BEL >>,         \* ESC ] 9 ; t BEL: unknown command
      << ESC, 91, 57, 57, 109 >> }             \* ESC [ 99 m: unknown SGR code

InvalidSequences == PlainInvalidSequences \cup UnknownSgrSequences

\* what comes before and after an invalid sequence
BeforeInvalid == { << >>, << 65 >>, << ESC, 91, 50, 59, 50, 72 >> }
AfterInvalid  == { << >>, << 66 >>, << ESC, 91, 65 >>, << LF >>, << 66, ESC, 91, 75 >> }

\* text runs with malformed UTF-8, the characters they put on the screen and
\* the number of malformed pieces
MalformedTexts ==
    { [bytes |-> << 65, 255, 66 >>, cells |-> << 65, REPLACEMENT_CHARACTER, 66 >>,
       reports |-> 1],                              \* A, 0xFF, B
      [bytes |-> << 255, 255 >>,
       cells |-> << REPLACEMENT_CHARACTER, REPLACEMENT_CHARACTER >>,
       reports |-> 2],                              \* 0xFF twice
      [bytes |-> << 65, 195, 66 >>, cells |-> << 65, REPLACEMENT_CHARACTER, 66 >>,
       reports |-> 1],                              \* A, a cut two-byte character, B
      [bytes |-> << 226, 130, 66 >>, cells |-> << REPLACEMENT_CHARACTER, 66 >>,
       reports |-> 1],                              \* a cut three-byte character, B
      [bytes |-> << 195, 169, 128, 65 >>, cells |-> << 233, REPLACEMENT_CHARACTER, 65 >>,
       reports |-> 1] }                             \* U+00E9, a stray continuation, A

\* CSI ? n h (terminator 104) and CSI ? n l (terminator 108)
PrivateMode(digits, terminator) == << ESC, 91, 63 >> \o digits \o << terminator >>

\* the private modes and the behaviour each one names
PrivateModes ==
    { [n |-> 1,    digits |-> << 49 >>,             behaviour |-> "ApplicationCursor"],
      [n |-> 25,   digits |-> << 50, 53 >>,         behaviour |-> "ShowCursor"],
      [n |-> 47,   digits |-> << 52, 55 >>,         behaviour |-> "AlternateBuffer"],
      [n |-> 1047, digits |-> << 49, 48, 52, 55 >>, behaviour |-> "AlternateBuffer"],
      [n |-> 2004, digits |-> << 50, 48, 48, 52 >>, behaviour |-> "BracketedPaste"] }

\* a private mode set, cleared, and set then cleared, on a new screen and after "A"
ToggleInputs ==
    { pre \o PrivateMode(p.digits, 104) : pre \in { << >>, << 65 >> }, p \in PrivateModes }
        \cup { pre \o PrivateMode(p.digits, 108) :
                 pre \in { << >>, << 65 >> }, p \in PrivateModes }
        \cup { PrivateMode(p.digits, 104) \o PrivateMode(p.digits, 108) : p \in PrivateModes }

\* A ESC [ ? 1049 h, then B ESC [ ? 1049 l
EnterAlternate == << 65 >> \o PrivateMode(<< 49, 48, 52, 57 >>, 104)
LeaveAlternate == << 66 >> \o PrivateMode(<< 49, 48, 52, 57 >>, 108)

\* SGR extended colours: the sequence, and what it sets to which colour
ExtendedColourSequences ==
    { [bytes  |-> << ESC, 91, 51, 56, 59, 53, 59, 49, 57, 54, 109 >>,      \* ESC [ 38;5;196 m
       ground |-> "foreground", color |-> Index(196)],
      [bytes  |-> << ESC, 91, 51, 56, 59, 53, 59, 48, 109 >>,              \* ESC [ 38;5;0 m
       ground |-> "foreground", color |-> Index(0)],
      [bytes  |-> << ESC, 91, 51, 56, 59, 50, 59, 49, 48, 59, 50, 48, 59, 51, 48, 109 >>,
       ground |-> "foreground", color |-> Rgb(10, 20, 30)],                \* ESC [ 38;2;10;20;30 m
      [bytes  |-> << ESC, 91, 52, 56, 59, 53, 59, 49, 57, 54, 109 >>,      \* ESC [ 48;5;196 m
       ground |-> "background", color |-> Index(196)],
      [bytes  |-> << ESC, 91, 52, 56, 59, 50, 59, 49, 48, 59, 50, 48, 59, 51, 48, 109 >>,
       ground |-> "background", color |-> Rgb(10, 20, 30)] }               \* ESC [ 48;2;10;20;30 m

\* inputs for error handling, private modes and extended colours
\* text around DEL, around the last C0 control byte, and printable bytes
\* next to the control range
DelExample == << 65, DEL, 66 >>
ControlByteInputs ==
    { DelExample, << DEL >>, << 65, 31, 66 >>, << 65, 32, 126, 66 >>, << 65, 128, 66 >> }

\* A, 0xFF, a cut two-byte character, ESC [ 5 Z, LF, B and an unfinished ESC [
AccountingExample == << 65, 255, 195, ESC, 91, 53, 90, LF, 66, ESC, 91 >>

ErrorInputs ==
    { a \o g \o b : a \in BeforeInvalid, g \in InvalidSequences, b \in AfterInvalid }
        \cup { m.bytes : m \in MalformedTexts }
        \cup ControlByteInputs
        \cup { AccountingExample }

\* ESC [ 3 n m and ESC [ 4 n m for n in 0..7, and the plane and the
\* palette index each one names
BasicColourSequences ==
    { [bytes |-> << ESC, 91, 51, 48 + n, 109 >>, ground |-> "foreground", n |-> n] : n \in 0..7 }
        \cup
    { [bytes |-> << ESC, 91, 52, 48 + n, 109 >>, ground |-> "background", n |-> n] : n \in 0..7 }

ModeInputs ==
    ToggleInputs \cup { EnterAlternate, EnterAlternate \o LeaveAlternate }
        \cup { x.bytes \o << 88 >> : x \in ExtendedColourSequences }
        \cup { x.bytes \o << 88 >> : x \in BasicColourSequences }

\* inputs for cursor positioning and for attributes: a position sequence alone
\* and followed by "A", and the two examples, the second one after attributes
\* were set
ScenarioInputs ==
    { h.bytes : h \in CursorPositionSequences }
        \cup { h.bytes \o << 65 >> : h \in CursorPositionSequences }
        \cup { PositionExample }
        \cup { a \o ColourExample : a \in AttributeSequences \cup { << >> } }

Inputs == Concats(MaxFragments) \cup ScenarioInputs \cup ErrorInputs \cup ModeInputs

ParseInit ==
    /\ input \in Inputs
    /\ cut \in 0..Len(input)
    /\ whole = Screen_new(Rows, Cols) /\ wholeLog = << >> /\ wholeDone = FALSE
    /\ chunked = Screen_new(Rows, Cols) /\ chunkedLog = << >> /\ chunks = 0

\* process_input(b) on the first screen
FeedWhole ==
    /\ ~wholeDone
    /\ \E r \in { process_input_calls(whole, input) } :
          whole' = r.screen /\ wholeLog' = wholeLog \o r.issued
    /\ wholeDone' = TRUE
    /\ UNCHANGED << input, cut, chunked, chunkedLog, chunks,
                   screenVars, outVars, inVars, frameVars, atlasVars,
                    threadVars, reserveVars >>

\* process_input(b[0..k)) on the second screen
FeedFirst ==
    /\ chunks = 0
    /\ \E r \in { process_input_calls(chunked, Take(input, cut)) } :
          chunked' = r.screen /\ chunkedLog' = chunkedLog \o r.issued
    /\ chunks' = 1
    /\ UNCHANGED << input, cut, whole, wholeLog, wholeDone,
                   screenVars, outVars, inVars, frameVars, atlasVars,
                    threadVars, reserveVars >>

\* process_input(b[k..)) on the second screen
FeedSecond ==
    /\ chunks = 1
    /\ \E r \in { process_input_calls(chunked, Drop(input, cut)) } :
          chunked' = r.screen /\ chunkedLog' = chunkedLog \o r.issued
    /\ chunks' = 2
    /\ UNCHANGED << input, cut, whole, wholeLog, wholeDone,
                   screenVars, outVars, inVars, frameVars, atlasVars,
                    threadVars, reserveVars >>

ParseNext == FeedWhole \/ FeedFirst \/ FeedSecond

ParseSpecInit ==
    ParseInit /\ ScreenAtRest /\ OutAtRest /\ InAtRest /\ FrameAtRest /\ AtlasAtRest
        /\ ThreadsAtRest /\ ReserveAtRest

SpecParse == ParseSpecInit /\ [][ParseNext]_vars

(***************************************************************************)
(* Screen scenario: a screen brought to some state by text, SGR,           *)
(* set_scrolling_region and set_cursor_pos, then one Terminal method       *)
(* called on it with arbitrary arguments.                                  *)
(***************************************************************************)
\* "abc...": one distinct letter per cell
FillText == [i \in 1..(Rows * Cols) |-> 96 + i]

\* the screen after: [text(FillText)] [SGR bold, background 4]
\* set_scrolling_region(start, end) set_cursor_pos(row, col) [text("z")]
Seed(fill, styled, start, end, row, col, write) ==
    LET s0 == Screen_new(Rows, Cols)
        s1 == IF fill THEN text(s0, FillText) ELSE s0
        s2 == IF styled
              THEN set_background_color(set_character_style(s1, {"BOLD"}), Index(4))
              ELSE s1
        s3 == set_cursor_pos(set_scrolling_region(s2, start, end), row, col)
    IN  IF write THEN text(s3, << 122 >>) ELSE s3

Seeds ==
    { Seed(fill, styled, start, end, row, col, write) :
        fill \in BOOLEAN, styled \in BOOLEAN,
        start \in 0..Rows, end \in 0..Rows,
        row \in 0..(Rows - 1), col \in 0..(Cols - 1), write \in BOOLEAN }

WellFormedSeeds == { s \in Seeds : s.scrolling_region.start <= s.scrolling_region.end }

ScreenInit ==
    /\ screen \in WellFormedSeeds
    /\ prev = screen
    /\ lastOp = NoOp
    /\ left = 1
    /\ initial = screen
    /\ held = NotHeld
    /\ scrolled = NoOp

\* the arguments the calls are tried with
Counts     == 0..(Rows + 1)
\* counts of lines: also the largest u16
LineCounts == Counts \cup { U16_MAX }
Steps      == {0, 1, 2, U16_MAX}
Directions == {"Up", "Down", "Left", "Right"}
Regions    == {"ToEnd", "ToStart", "All"}
Toggles    == {"Enable", "Disable"}
Behaviours == {"ShowCursor", "AlternateBuffer", "BracketedPaste", "ApplicationCursor"}
\* "x", "x" U+00E9, and "ab..." up to one character more than the grid holds
Texts      == { << 120 >>, << 120, 195, 169 >> }
                  \cup { Take(FillText \o << 122 >>, k) : k \in 2..(Rows * Cols + 1) }

\* the primary grid is held aside when the alternate buffer is enabled
hold(op, before, after) ==
    IF op = "resize_grid" THEN NotHeld
    ELSE IF after.behaviours.alternate_buffer /\ ~before.behaviours.alternate_buffer
    THEN [valid |-> TRUE, grid |-> before.grid]
    ELSE held

\* one call: the screen becomes after, the call is recorded
Call(op, s, n, after) ==
    /\ left > 0
    /\ ~screen.panicked
    /\ screen' = after
    /\ prev' = screen
    /\ lastOp' = Cmd(op, s, n)
    /\ left' = left - 1
    /\ held' = hold(op, screen, after)
    /\ scrolled' = IF lastOp.op = "scroll_up" THEN lastOp ELSE NoOp
    /\ UNCHANGED << initial, parseVars, outVars, inVars, frameVars, atlasVars,
                    threadVars, reserveVars >>

Text           == \E b \in Texts : Call("text", "", b, text(screen, b))
InvalidUtf8    == Call("invalid_utf8", "", << 255 >>, invalid_utf8(screen, << 255 >>))
Tab            == Call("tab", "", << >>, tab(screen))
Backspace      == Call("backspace", "", << >>, backspace(screen))
CarriageReturn == Call("carriage_return", "", << >>, carriage_return(screen))
LineFeed       == Call("line_feed", "", << >>, line_feed(screen))
ReverseLineFeed == Call("reverse_line_feed", "", << >>, reverse_line_feed(screen))
DeleteLines    == \E n \in LineCounts : Call("delete_lines", "", << n >>, delete_lines(screen, n))
InsertLines    == \E n \in LineCounts : Call("insert_lines", "", << n >>, insert_lines(screen, n))
ScrollDown     == \E n \in LineCounts : Call("scroll_down", "", << n >>, scroll_down(screen, n))
\* scroll_up(n), built with overflow checks or without them
ScrollUp ==
    \E n \in LineCounts, overflow_checks \in BOOLEAN :
        Call("scroll_up", "", << n >>,
             IF overflow_checks THEN scroll_up(screen, n)
             ELSE scroll_up_build(screen, n, FALSE))
MoveCursor ==
    \E d \in Directions, n \in Steps : Call("move_cursor", d, << n >>, move_cursor(screen, d, n))
SetCursorPos ==
    \E r \in 0..Rows, c \in 0..Cols :
        Call("set_cursor_pos", "", << r, c >>, set_cursor_pos(screen, r, c))
SaveCursor     == Call("save_cursor", "", << >>, save_cursor(screen))
RestoreCursor  == Call("restore_cursor", "", << >>, restore_cursor(screen))
SetScrollingRegion ==
    \E a \in 0..(Rows + 1), b \in 0..(Rows + 1) :
        Call("set_scrolling_region", "", << a, b >>, set_scrolling_region(screen, a, b))
ClearLine      == \E r \in Regions : Call("clear_line", r, << >>, clear_line(screen, r))
ClearScreen    == \E r \in Regions : Call("clear_screen", r, << >>, clear_screen(screen, r))
ClearScrollback == Call("clear_scrollback", "", << >>, clear_scrollback(screen))
Erase          == \E n \in Counts : Call("erase", "", << n >>, erase(screen, n))
SetCharacterStyle ==
    \E st \in {"BOLD", "INVERSE"} :
        Call("set_character_style", st, << >>, set_character_style(screen, {st}))
ResetCharacterStyle ==
    \/ Call("reset_character_style", "BOLD", << >>, reset_character_style(screen, {"BOLD"}))
    \/ Call("reset_character_style", "ALL", << >>, reset_character_style(screen, AllStyles))
SetForegroundColor ==
    Call("set_foreground_color", "Index", << 1 >>, set_foreground_color(screen, Index(1)))
ResetForegroundColor ==
    Call("reset_foreground_color", "", << >>, reset_foreground_color(screen))
SetBackgroundColor ==
    Call("set_background_color", "Index", << 2 >>, set_background_color(screen, Index(2)))
ResetBackgroundColor ==
    Call("reset_background_color", "", << >>, reset_background_color(screen))
SetWindowTitle ==
    Call("set_window_title", "", << 116 >>, set_window_title(screen, << 116 >>))
ToggleBehaviour ==
    \E b \in Behaviours, tg \in Toggles :
        Call("toggle_behaviour", b, << IF tg = "Enable" THEN 1 ELSE 0 >>,
             toggle_behaviour(screen, b, tg))
ResizeGrid ==
    \E r \in 1..Rows, c \in 1..Cols :
        Call("resize_grid", "", << r, c >>, resize_grid(screen, r, c))

ScreenNext ==
    \/ Text \/ InvalidUtf8 \/ Tab \/ Backspace \/ CarriageReturn \/ LineFeed
    \/ ReverseLineFeed \/ DeleteLines \/ InsertLines \/ ScrollDown \/ ScrollUp
    \/ MoveCursor \/ SetCursorPos \/ SaveCursor \/ RestoreCursor \/ SetScrollingRegion
    \/ ClearLine \/ ClearScreen \/ ClearScrollback \/ Erase
    \/ SetCharacterStyle \/ ResetCharacterStyle
    \/ SetForegroundColor \/ ResetForegroundColor
    \/ SetBackgroundColor \/ ResetBackgroundColor
    \/ SetWindowTitle \/ ToggleBehaviour \/ ResizeGrid

ScreenSpecInit ==
    ScreenInit /\ ParseAtRest /\ OutAtRest /\ InAtRest /\ FrameAtRest /\ AtlasAtRest
        /\ ThreadsAtRest /\ ReserveAtRest

SpecScreen == ScreenSpecInit /\ [][ScreenNext]_vars

(***************************************************************************)
(* Session scenario: up to MaxCalls Terminal methods called one after the  *)
(* other on one screen.                                                    *)
(***************************************************************************)
\* the screen a session starts from, with the primary grid held aside if the
\* alternate buffer is active: text in the first fill cells, the alternate
\* buffer enabled or not, plain or styled, the scrolling region [rs, Rows),
\* and the cursor either saved in the last cell and left there, or at the origin
SessionSeed(fill, alt, styled, rs, corner) ==
    LET s0 == Screen_new(Rows, Cols)
        s1 == text(s0, Take(FillText, fill))
        s2 == IF alt THEN toggle_behaviour(s1, "AlternateBuffer", "Enable") ELSE s1
        s3 == IF styled
              THEN set_background_color(set_character_style(s2, {"BOLD"}), Index(4))
              ELSE s2
        s4 == set_scrolling_region(s3, rs, Rows)
    IN  [screen |-> IF corner THEN save_cursor(set_cursor_pos(s4, Rows - 1, Cols - 1))
                    ELSE set_cursor_pos(s4, 0, 0),
         held   |-> IF alt THEN [valid |-> TRUE, grid |-> s1.grid] ELSE NotHeld]

\* the scrolling region is the whole grid or its last row; text is nowhere,
\* in the rows above the scrolling region, or in every row
SessionSeeds ==
    { SessionSeed(fill, alt, styled, rs, corner) :
        rs \in {0, Rows - 1}, fill \in {0, (Rows - 1) * Cols, Rows * Cols},
        alt \in BOOLEAN, styled \in BOOLEAN, corner \in BOOLEAN }

SessionInit ==
    /\ \E seed \in SessionSeeds : screen = seed.screen /\ held = seed.held
    /\ prev = screen
    /\ lastOp = NoOp
    /\ left = MaxCalls
    /\ initial = screen
    /\ scrolled = NoOp

SessionSpecInit ==
    SessionInit /\ ParseAtRest /\ OutAtRest /\ InAtRest /\ FrameAtRest /\ AtlasAtRest
        /\ ThreadsAtRest /\ ReserveAtRest

SpecSession == SessionSpecInit /\ [][ScreenNext]_vars

(***************************************************************************)
(* Output pipeline scenario: the child writes stream; the reader thread    *)
(* reads it in pieces of any size, decodes and sends; the consumer polls   *)
(* with try_read.                                                          *)
(***************************************************************************)
StreamBytes == { ESC, 91, 50, 74, 65, 195, 169 }    \* ESC [ 2 J A and the two bytes of U+00E9

Streams == UNION { [1..n -> StreamBytes] : n \in 0..MaxStream }

OutInit ==
    /\ stream \in Streams
    /\ fed = 0 /\ rbuf = << >> /\ rpc = "read" /\ codes = << >>
    /\ events = << >>
    /\ outQ = << >> /\ enqueued = << >> /\ received = << >>
    /\ lastRead = "none" /\ seen = NotSeen

\* reader.read(&mut buffer[valid_until..]) returns count bytes, at least one
\* and at most what the child has written and the buffer has room for; the
\* bytes are decoded and what is left is moved to the front of the buffer
ReaderRead ==
    /\ rpc = "read"
    /\ \E count \in 1..Min(Len(stream) - fed, BUFFER_SIZE - Len(rbuf)) :
         \E r \in { reader_decode(rbuf \o SubSeq(stream, fed + 1, fed + count), << >>) } :
            /\ fed' = fed + count
            /\ codes' = r.codes
            /\ rbuf' = r.rest
    /\ rpc' = "send"
    /\ events' = Append(events, "read")
    /\ UNCHANGED << stream, outQ, enqueued, received, lastRead, seen >>
    /\ UNCHANGED << parseVars, screenVars, inVars, frameVars, atlasVars,
                    threadVars, reserveVars >>

\* read returns 0, at the end of the stream or with no room left in the
\* buffer: the loop ends, the thread returns and drops the sender
ReaderEnd ==
    /\ rpc = "read"
    /\ fed = Len(stream) \/ Len(rbuf) = BUFFER_SIZE
    /\ rpc' = "done"
    /\ UNCHANGED << stream, fed, rbuf, events, codes, outQ, enqueued, received,
                    lastRead, seen >>
    /\ UNCHANGED << parseVars, screenVars, inVars, frameVars, atlasVars,
                    threadVars, reserveVars >>

\* a loop body that goes back to read after the send, without the wake
ReaderSend_no_wake ==
    /\ rpc = "send"
    /\ Len(outQ) < QueueCapacity
    /\ outQ' = Append(outQ, codes)
    /\ enqueued' = Append(enqueued, codes)
    /\ codes' = << >>
    /\ rpc' = "read"
    /\ events' = Append(events, "send")
    /\ UNCHANGED << stream, fed, rbuf, received, lastRead, seen >>
    /\ UNCHANGED << parseVars, screenVars, inVars, frameVars, atlasVars,
                    threadVars, reserveVars >>

\* sender.send(codes.clone()), which waits while the queue is full; codes.clear()
ReaderSend ==
    /\ rpc = "send"
    /\ Len(outQ) < QueueCapacity
    /\ outQ' = Append(outQ, codes)
    /\ enqueued' = Append(enqueued, codes)
    /\ codes' = << >>
    /\ rpc' = "wake"
    /\ events' = Append(events, "send")
    /\ UNCHANGED << stream, fed, rbuf, received, lastRead, seen >>
    /\ UNCHANGED << parseVars, screenVars, inVars, frameVars, atlasVars,
                    threadVars, reserveVars >>

\* waker.wake(), then back to the top of the loop
ReaderWake ==
    /\ rpc = "wake"
    /\ rpc' = "read"
    /\ events' = Append(events, "wake")
    /\ UNCHANGED << stream, fed, rbuf, codes, outQ, enqueued, received, lastRead, seen >>
    /\ UNCHANGED << parseVars, screenVars, inVars, frameVars, atlasVars,
                    threadVars, reserveVars >>

\* Terminal::try_read by the consumer, which stops polling after Closed
TryRead ==
    /\ lastRead # "Closed"
    /\ lastRead' = try_read(outQ, rpc # "done")
    /\ seen' = [queued |-> Len(outQ), alive |-> rpc # "done"]
    /\ IF lastRead' = "Ok"
       THEN outQ' = Tail(outQ) /\ received' = Append(received, Head(outQ))
       ELSE UNCHANGED << outQ, received >>
    /\ UNCHANGED << stream, fed, rbuf, rpc, events, codes, enqueued >>
    /\ UNCHANGED << parseVars, screenVars, inVars, frameVars, atlasVars,
                    threadVars, reserveVars >>

OutNext == ReaderRead \/ ReaderEnd \/ ReaderSend \/ ReaderWake \/ TryRead

OutSpecInit ==
    OutInit /\ ParseAtRest /\ ScreenAtRest /\ InAtRest /\ FrameAtRest /\ AtlasAtRest
        /\ ThreadsAtRest /\ ReserveAtRest

SpecOut == OutSpecInit /\ [][OutNext]_vars

(***************************************************************************)
(* Input pipeline scenario: the UI sends chunks with send_char and         *)
(* write_fmt and may drop the Terminal; the writer thread writes them.     *)
(***************************************************************************)
\* what the UI sends: "a", U+00E9, ESC [ A
Chunks == { TerminalInput_Char(97), TerminalInput_Char(233), TerminalInput_Bytes(<< ESC, 91, 65 >>) }

InInit ==
    /\ inQ = << >> /\ uiAlive = TRUE /\ accepted = << >>
    /\ wpc = "recv" /\ item = << >> /\ writer = [buf |-> << >>, file |-> << >>]

\* send_char, write_fmt: input.send(..), which waits while the queue is full
Send ==
    /\ uiAlive
    /\ Len(accepted) < MaxChunks
    /\ Len(inQ) < QueueCapacity
    /\ wpc \notin {"exit", "done"}
    /\ \E chunk \in Chunks :
          /\ inQ' = Append(inQ, chunk)
          /\ accepted' = Append(accepted, chunk)
    /\ UNCHANGED << uiAlive, wpc, item, writer >>
    /\ UNCHANGED << parseVars, screenVars, outVars, frameVars, atlasVars,
                    threadVars, reserveVars >>

\* the Terminal, and the sender with it, is dropped
DropTerminal ==
    /\ uiAlive
    /\ uiAlive' = FALSE
    /\ UNCHANGED << inQ, accepted, wpc, item, writer >>
    /\ UNCHANGED << parseVars, screenVars, outVars, frameVars, atlasVars,
                    threadVars, reserveVars >>

\* receiver.recv(): waits for a chunk, or for the sender to be dropped
WriterRecv ==
    /\ wpc = "recv"
    /\ \/ /\ inQ # << >>
          /\ item' = Head(inQ) /\ inQ' = Tail(inQ) /\ wpc' = "item"
       \/ /\ inQ = << >> /\ ~uiAlive
          /\ wpc' = "exit" /\ UNCHANGED << item, inQ >>
    /\ UNCHANGED << uiAlive, accepted, writer >>
    /\ UNCHANGED << parseVars, screenVars, outVars, frameVars, atlasVars,
                    threadVars, reserveVars >>

\* the arms Ok(Char) and Ok(Bytes): write_all, then receiver.try_recv()
WriterWrite ==
    /\ wpc = "item"
    /\ writer' = write_all(writer, item)
    /\ IF inQ # << >>
       THEN item' = Head(inQ) /\ inQ' = Tail(inQ) /\ wpc' = "item"
       ELSE /\ item' = << >> /\ UNCHANGED inQ
            /\ wpc' = IF uiAlive THEN "empty" ELSE "exit"
    /\ UNCHANGED << uiAlive, accepted >>
    /\ UNCHANGED << parseVars, screenVars, outVars, frameVars, atlasVars,
                    threadVars, reserveVars >>

\* the arm Err(Empty): flush, then back to receiver.recv()
WriterEmpty ==
    /\ wpc = "empty"
    /\ writer' = on_empty(writer)
    /\ wpc' = "recv"
    /\ UNCHANGED << inQ, uiAlive, accepted, item >>
    /\ UNCHANGED << parseVars, screenVars, outVars, frameVars, atlasVars,
                    threadVars, reserveVars >>

\* the arm Err(Disconnected): break; the BufWriter is dropped, which flushes
WriterExit ==
    /\ wpc = "exit"
    /\ writer' = flush(writer)
    /\ wpc' = "done"
    /\ UNCHANGED << inQ, uiAlive, accepted, item >>
    /\ UNCHANGED << parseVars, screenVars, outVars, frameVars, atlasVars,
                    threadVars, reserveVars >>

WriterStep == WriterRecv \/ WriterWrite \/ WriterEmpty \/ WriterExit

InNext == Send \/ DropTerminal \/ WriterStep

InSpecInit ==
    InInit /\ ParseAtRest /\ ScreenAtRest /\ OutAtRest /\ FrameAtRest /\ AtlasAtRest
        /\ ThreadsAtRest /\ ReserveAtRest

\* the writer thread is scheduled: a step it can take is eventually taken
SpecIn == InSpecInit /\ [][InNext]_vars /\ WF_vars(WriterStep)

(***************************************************************************)
(* Atlas scenario: keep_intersection applied to the free ranges of two     *)
(* rows.  A row of the atlas holds non-empty ranges, sorted by start and   *)
(* pairwise disjoint: TextureAtlas::new stores one range (0, size) per row *)
(* and reserve replaces a range by the non-empty parts left of it.         *)
(***************************************************************************)
MaxCoord == 6           \* the width of the atlas
MaxRanges == 3          \* free ranges in one row

RECURSIVE RangeListsFrom(_, _)
\* the lists of at most n ranges that start at lo or after it
RangeListsFrom(lo, n) ==
    IF n = 0 THEN { << >> }
    ELSE { << >> } \cup
         UNION { { << FreeRange(r[1], r[2]) >> \o rest : rest \in RangeListsFrom(r[2], n - 1) } :
                 r \in { p \in (lo..MaxCoord) \X (lo..MaxCoord) : p[1] < p[2] } }

RangeLists == RangeListsFrom(0, MaxRanges)

\* the arguments of the test range_intersect
range_intersect_av == << FreeRange(0, 10) >>
range_intersect_bv == << FreeRange(2, 4), FreeRange(8, 10) >>

AtlasInit ==
    /\ \E pair \in (RangeLists \X RangeLists)
                      \cup { << range_intersect_av, range_intersect_bv >> } :
          /\ atlasColumns = pair[1]
          /\ atlasRow = pair[2]
    /\ intersection = << >>
    /\ computed = FALSE

\* columns = keep_intersection(&columns, &self.rows[y]), once
KeepIntersection ==
    /\ ~computed
    /\ intersection' = keep_intersection(atlasColumns, atlasRow)
    /\ computed' = TRUE
    /\ UNCHANGED << atlasColumns, atlasRow >>
    /\ UNCHANGED << parseVars, screenVars, outVars, inVars, frameVars,
                    threadVars, reserveVars >>

AtlasNext == KeepIntersection

AtlasSpecInit ==
    AtlasInit /\ ParseAtRest /\ ScreenAtRest /\ OutAtRest /\ InAtRest /\ FrameAtRest
        /\ ThreadsAtRest /\ ReserveAtRest

SpecAtlas == AtlasSpecInit /\ [][AtlasNext]_vars

(***************************************************************************)
(* Frame scenario: the child never stops writing; the reader thread reads, *)
(* sends and wakes in its loop, and the UI thread handles EventsCleared:   *)
(* it drains the output queue with try_read until Empty, then renders.     *)
(* The child writes bytes whose codes move the cursor of main.rs only.     *)
(***************************************************************************)
BurstBytes == { BEL, BS, CR }

\* the arm of `match code` in main.rs for one code of a message
main_code(cursor, code, cols) ==
    CASE code.code = "CarriageReturn" -> [cursor EXCEPT !.col = 0]
      [] code.code = "Backspace" ->
            IF cursor.col > 0
            THEN [cursor EXCEPT !.col = @ - 1]
            ELSE [cursor EXCEPT !.col = cols - 1]
      [] OTHER -> cursor                       \* Bell: eprintln!

RECURSIVE main_message(_, _, _)
\* for code in message { match code { ... } }
main_message(cursor, message, cols) ==
    IF message = << >> THEN cursor
    ELSE main_message(main_code(cursor, Head(message), cols), Tail(message), cols)

FrameInit ==
    /\ burstPc = "read" /\ burstCodes = << >> /\ frameQ = << >>
    /\ ui = "idle"
    /\ uiCursor \in { Position(0, col) : col \in 0..(Cols - 1) }

\* reader.read returns one more byte of the child's output, which is decoded
BurstRead ==
    /\ burstPc = "read"
    /\ \E byte \in BurstBytes :
         \E r \in { reader_decode(<< byte >>, << >>) } :
            burstCodes' = r.codes
    /\ burstPc' = "send"
    /\ UNCHANGED << frameQ, ui, uiCursor >>
    /\ UNCHANGED << parseVars, screenVars, outVars, inVars, atlasVars,
                    threadVars, reserveVars >>

\* sender.send(codes.clone()), which waits while the queue is full; codes.clear()
BurstSend ==
    /\ burstPc = "send"
    /\ Len(frameQ) < QueueCapacity
    /\ frameQ' = Append(frameQ, burstCodes)
    /\ burstCodes' = << >>
    /\ burstPc' = "wake"
    /\ UNCHANGED << ui, uiCursor >>
    /\ UNCHANGED << parseVars, screenVars, outVars, inVars, atlasVars,
                    threadVars, reserveVars >>

\* waker.wake(), then back to the top of the loop
BurstWake ==
    /\ burstPc = "wake"
    /\ burstPc' = "read"
    /\ UNCHANGED << burstCodes, frameQ, ui, uiCursor >>
    /\ UNCHANGED << parseVars, screenVars, outVars, inVars, atlasVars,
                    threadVars, reserveVars >>

\* the event loop delivers EventsCleared: the handler enters its loop
EventsCleared ==
    /\ ui = "idle"
    /\ ui' = "drain"
    /\ UNCHANGED << burstPc, burstCodes, frameQ, uiCursor >>
    /\ UNCHANGED << parseVars, screenVars, outVars, inVars, atlasVars,
                    threadVars, reserveVars >>

\* one turn of the loop: try_read, then the message's codes, or break on
\* Empty, or window.close() on Closed
DrainStep ==
    /\ ui = "drain"
    /\ \E r \in { try_read(frameQ, TRUE) } :
         CASE r = "Ok" ->
                 /\ frameQ' = Tail(frameQ)
                 /\ uiCursor' = main_message(uiCursor, Head(frameQ), Cols)
                 /\ ui' = "drain"
           [] r = "Empty" ->
                 /\ ui' = "render"
                 /\ UNCHANGED << frameQ, uiCursor >>
           [] OTHER ->
                 /\ ui' = "closed"
                 /\ UNCHANGED << frameQ, uiCursor >>
    /\ UNCHANGED << burstPc, burstCodes >>
    /\ UNCHANGED << parseVars, screenVars, outVars, inVars, atlasVars,
                    threadVars, reserveVars >>

\* renderer.render(&grid, ...), which ends the handler
Render ==
    /\ ui = "render"
    /\ ui' = "idle"
    /\ UNCHANGED << burstPc, burstCodes, frameQ, uiCursor >>
    /\ UNCHANGED << parseVars, screenVars, outVars, inVars, atlasVars,
                    threadVars, reserveVars >>

BurstStep == BurstRead \/ BurstSend \/ BurstWake
UiStep    == EventsCleared \/ DrainStep \/ Render

FrameNext == BurstStep \/ UiStep

FrameSpecInit ==
    FrameInit /\ ParseAtRest /\ ScreenAtRest /\ OutAtRest /\ InAtRest /\ AtlasAtRest
        /\ ThreadsAtRest /\ ReserveAtRest

\* both threads keep running: each takes its next step when it can
SpecFrame ==
    FrameSpecInit /\ [][FrameNext]_vars /\ WF_vars(BurstStep) /\ WF_vars(UiStep)

(***************************************************************************)
(* Tab scenario: one tab on a screen of any width up to MaxWidth, full of  *)
(* text, with the cursor in any row and any column, the column past the    *)
(* last one (a pending wrap) included.                                     *)
(***************************************************************************)
MaxWidth == 10          \* columns of the widest grid

\* the screen after: text filling the grid, set_cursor_pos(row, 0), text of col characters
TabSeed(width, row, col) ==
    LET s0 == Screen_new(Rows, width)
        s1 == text(s0, [i \in 1..(Rows * width) |-> 97 + (i % 26)])
        s2 == set_cursor_pos(s1, row, 0)
    IN  text(s2, [i \in 1..col |-> 122])

TabSeeds ==
    UNION { { TabSeed(width, row, col) : row \in 0..(Rows - 1), col \in 0..width } :
            width \in 1..MaxWidth }

TabInit ==
    /\ screen \in TabSeeds
    /\ prev = screen
    /\ lastOp = NoOp
    /\ left = 1
    /\ initial = screen
    /\ held = NotHeld
    /\ scrolled = NoOp

TabNext == Tab

TabSpecInit ==
    TabInit /\ ParseAtRest /\ OutAtRest /\ InAtRest /\ FrameAtRest /\ AtlasAtRest
        /\ ThreadsAtRest /\ ReserveAtRest

SpecTab == TabSpecInit /\ [][TabNext]_vars

(***************************************************************************)
(* Carry scenario: the output pipeline on streams that hold one sequence   *)
(* setting the window title, ESC ] 0 ; A ... A BEL.  Until its BEL is read *)
(* the sequence is incomplete and is carried over in the reader's buffer.  *)
(***************************************************************************)
\* ESC ] 0 ; and n times A
TitleStart(n) == << ESC, 93, 48, 59 >> \o [i \in 1..n |-> 65]

\* a title that fits the buffer with its BEL, and one whose BEL is the first
\* byte past the buffer's size, each followed by B
CarryStreams ==
    { TitleStart(1) \o << BEL, 66 >>,
      TitleStart(BUFFER_SIZE - 4) \o << BEL, 66 >> }

CarryInit ==
    /\ stream \in CarryStreams
    /\ fed = 0 /\ rbuf = << >> /\ rpc = "read" /\ codes = << >>
    /\ events = << >>
    /\ outQ = << >> /\ enqueued = << >> /\ received = << >>
    /\ lastRead = "none" /\ seen = NotSeen

CarrySpecInit ==
    CarryInit /\ ParseAtRest /\ ScreenAtRest /\ InAtRest /\ FrameAtRest /\ AtlasAtRest
        /\ ThreadsAtRest /\ ReserveAtRest

SpecCarry == CarrySpecInit /\ [][OutNext]_vars

(***************************************************************************)
(* Threads scenario: the UI thread, the writer thread and the reader       *)
(* thread of Terminal::connect, the two bounded queues between them, and   *)
(* the pseudo-terminal with a child that echoes: it reads an item of its   *)
(* input only to write it to its output, and waits while its output is     *)
(* not being read.  Queues and buffers are counted in items.               *)
(***************************************************************************)
PtyCapacity == 2        \* items the pseudo-terminal holds in each direction
WriterCapacity == 1     \* items the BufWriter holds

ThreadsInit == ThreadsAtRest

\* Event::KeyPress: the handler calls send_char or write!, which call input.send
KeyPress ==
    /\ uiAt = "events"
    /\ uiAt' = "send"
    /\ UNCHANGED << inputFill, writerAt, buffered, toChild, fromChild, readerAt, outputFill >>
    /\ UNCHANGED << parseVars, screenVars, outVars, inVars, frameVars, atlasVars,
                    reserveVars >>

\* input.send(..) of send_char and write_fmt: waits while the queue is full,
\* then the handler returns
UiSend ==
    /\ uiAt = "send"
    /\ inputFill < QueueCapacity
    /\ inputFill' = inputFill + 1
    /\ uiAt' = "events"
    /\ UNCHANGED << writerAt, buffered, toChild, fromChild, readerAt, outputFill >>
    /\ UNCHANGED << parseVars, screenVars, outVars, inVars, frameVars, atlasVars,
                    reserveVars >>

\* Event::EventsCleared: the handler enters its loop of try_read
UiEventsCleared ==
    /\ uiAt = "events"
    /\ uiAt' = "drain"
    /\ UNCHANGED << inputFill, writerAt, buffered, toChild, fromChild, readerAt, outputFill >>
    /\ UNCHANGED << parseVars, screenVars, outVars, inVars, frameVars, atlasVars,
                    reserveVars >>

\* terminal.try_read() in the loop: Ok takes a message, Empty ends the loop
\* and the handler
UiTryRead ==
    /\ uiAt = "drain"
    /\ IF outputFill > 0
       THEN outputFill' = outputFill - 1 /\ uiAt' = "drain"
       ELSE UNCHANGED outputFill /\ uiAt' = "events"
    /\ UNCHANGED << inputFill, writerAt, buffered, toChild, fromChild, readerAt >>
    /\ UNCHANGED << parseVars, screenVars, outVars, inVars, frameVars, atlasVars,
                    reserveVars >>

\* receiver.recv() of the writer thread: waits for an item
ThreadsWriterRecv ==
    /\ writerAt = "recv"
    /\ inputFill > 0
    /\ inputFill' = inputFill - 1
    /\ writerAt' = "item"
    /\ UNCHANGED << uiAt, buffered, toChild, fromChild, readerAt, outputFill >>
    /\ UNCHANGED << parseVars, screenVars, outVars, inVars, frameVars, atlasVars,
                    reserveVars >>

\* the arms Ok(Char) and Ok(Bytes): write_all into the BufWriter, which first
\* writes its buffer out when the item does not fit, then receiver.try_recv()
ThreadsWriterWrite ==
    /\ writerAt = "item"
    /\ IF buffered < WriterCapacity
       THEN /\ buffered' = buffered + 1
            /\ IF inputFill > 0
               THEN inputFill' = inputFill - 1 /\ writerAt' = "item"
               ELSE UNCHANGED inputFill /\ writerAt' = "empty"
       ELSE /\ writerAt' = "full"
            /\ UNCHANGED << buffered, inputFill >>
    /\ UNCHANGED << uiAt, toChild, fromChild, readerAt, outputFill >>
    /\ UNCHANGED << parseVars, screenVars, outVars, inVars, frameVars, atlasVars,
                    reserveVars >>

\* the BufWriter writes its buffer to the pseudo-terminal, inside write_all
\* ("full") or in writer.flush() of the arm Err(Empty) ("empty"): a write
\* waits while the pseudo-terminal is full
ThreadsWriterFlush ==
    /\ writerAt \in {"full", "empty"}
    /\ IF buffered > 0
       THEN /\ toChild < PtyCapacity
            /\ toChild' = toChild + 1
            /\ buffered' = buffered - 1
            /\ UNCHANGED writerAt
       ELSE /\ writerAt' = IF writerAt = "full" THEN "item" ELSE "recv"
            /\ UNCHANGED << toChild, buffered >>
    /\ UNCHANGED << uiAt, inputFill, fromChild, readerAt, outputFill >>
    /\ UNCHANGED << parseVars, screenVars, outVars, inVars, frameVars, atlasVars,
                    reserveVars >>

\* the child reads an item and writes it back; it waits while its output is full
ChildEcho ==
    /\ toChild > 0
    /\ fromChild < PtyCapacity
    /\ toChild' = toChild - 1
    /\ fromChild' = fromChild + 1
    /\ UNCHANGED << uiAt, inputFill, writerAt, buffered, readerAt, outputFill >>
    /\ UNCHANGED << parseVars, screenVars, outVars, inVars, frameVars, atlasVars,
                    reserveVars >>

\* reader.read(..) of the reader thread: waits for output of the child and
\* takes some of it
ThreadsReaderRead ==
    /\ readerAt = "read"
    /\ \E count \in 1..fromChild : fromChild' = fromChild - count
    /\ readerAt' = "send"
    /\ UNCHANGED << uiAt, inputFill, writerAt, buffered, toChild, outputFill >>
    /\ UNCHANGED << parseVars, screenVars, outVars, inVars, frameVars, atlasVars,
                    reserveVars >>

\* sender.send(codes.clone()): waits while the output queue is full
ThreadsReaderSend ==
    /\ readerAt = "send"
    /\ outputFill < QueueCapacity
    /\ outputFill' = outputFill + 1
    /\ readerAt' = "wake"
    /\ UNCHANGED << uiAt, inputFill, writerAt, buffered, toChild, fromChild >>
    /\ UNCHANGED << parseVars, screenVars, outVars, inVars, frameVars, atlasVars,
                    reserveVars >>

\* waker.wake(), then the next turn of the loop
ThreadsReaderWake ==
    /\ readerAt = "wake"
    /\ readerAt' = "read"
    /\ UNCHANGED << uiAt, inputFill, writerAt, buffered, toChild, fromChild, outputFill >>
    /\ UNCHANGED << parseVars, screenVars, outVars, inVars, frameVars, atlasVars,
                    reserveVars >>

ThreadsNext ==
    \/ KeyPress \/ UiSend \/ UiEventsCleared \/ UiTryRead
    \/ ThreadsWriterRecv \/ ThreadsWriterWrite \/ ThreadsWriterFlush
    \/ ChildEcho
    \/ ThreadsReaderRead \/ ThreadsReaderSend \/ ThreadsReaderWake

ThreadsSpecInit ==
    ThreadsInit /\ ParseAtRest /\ ScreenAtRest /\ OutAtRest /\ InAtRest /\ FrameAtRest
        /\ AtlasAtRest /\ ReserveAtRest

SpecThreads == ThreadsSpecInit /\ [][ThreadsNext]_vars

(***************************************************************************)
(* Reserve scenario: reserve called on a new TextureAtlas, as rasterize    *)
(* does for each glyph, with the width and height of the glyph's bitmap.   *)
(***************************************************************************)
AtlasSize == 4          \* the side of the atlas
MaxReserve == 3         \* calls of reserve

\* the rectangle [x, x + width) x [y, y + height)
Rectangle(offset, width, height) ==
    [x |-> offset[1], y |-> offset[2], width |-> width, height |-> height]

ReserveInit ==
    /\ atlas = TextureAtlas_new(AtlasSize)
    /\ rectangles = << >>
    /\ panicked = FALSE

\* atlas.reserve(width, height) in rasterize: Some(offset) makes a glyph,
\* None is the error AtlasFull
Reserve ==
    /\ ~panicked
    /\ Len(rectangles) < MaxReserve
    /\ \E width \in 0..AtlasSize, height \in 0..AtlasSize :
         \E r \in { reserve(atlas, width, height) } :
            /\ panicked' = r.panic
            /\ atlas' = IF r.panic THEN atlas ELSE r.atlas
            /\ rectangles' = IF ~r.panic /\ r.offset.some
                             THEN Append(rectangles, Rectangle(r.offset.value, width, height))
                             ELSE rectangles
    /\ UNCHANGED << parseVars, screenVars, outVars, inVars, frameVars, atlasVars,
                    threadVars >>

ReserveNext == Reserve

ReserveSpecInit ==
    ReserveInit /\ ParseAtRest /\ ScreenAtRest /\ OutAtRest /\ InAtRest /\ FrameAtRest
        /\ AtlasAtRest /\ ThreadsAtRest

SpecReserve == ReserveSpecInit /\ [][ReserveNext]_vars

(***************************************************************************)
(* Properties of the decoder scenario (SpecParse)                          *)
(***************************************************************************)
\* both screens have been fed all of the input
BothFed == wholeDone /\ chunks = 2

\* the first chunk ends inside a control sequence or a character
CutInsideSequence == parse(Take(input, cut)).tail # << >>

\* a command log with every run of text calls joined into one call and empty
\* text calls left out
RECURSIVE JoinText(_)
JoinText(log) ==
    IF log = << >> THEN << >>
    ELSE LET rest == JoinText(Tail(log))
             c    == Head(log)
         IN  IF c.op # "text" THEN << c >> \o rest
             ELSE IF c.n = << >> THEN rest
             ELSE IF rest # << >> /\ Head(rest).op = "text"
                  THEN << Cmd("text", "", c.n \o Head(rest).n) >> \o Tail(rest)
                  ELSE << c >> \o rest

\* C1 as stated: feeding b[0..k) and then b[k..) makes exactly the sink calls
\* of feeding b at once, and leaves the same screen state.
C1_SameCallsAsStated ==
    BothFed => chunkedLog = wholeLog /\ chunked = whole

\* C1 amended: feeding b[0..k) and then b[k..) leaves the same screen state
\* as feeding b at once (residual input included), and makes the same sink
\* calls once runs of text calls are joined and empty text calls dropped.
C1_SameScreenAndJoinedCalls ==
    BothFed => JoinText(chunkedLog) = JoinText(wholeLog) /\ chunked = whole

\* a split inside a sequence, after which both screens saw several calls
C1_Witness ==
    /\ BothFed /\ 0 < cut /\ cut < Len(input)
    /\ CutInsideSequence
    /\ Len(wholeLog) >= 2
    /\ chunkedLog = wholeLog

\* the sink calls each recognized sequence stands for
CommandsOf(seq) ==
    CASE seq = << ESC, 91, 50, 74 >> -> << Cmd("clear_screen", "All", << >>) >>
      [] seq = << ESC, 91, 75 >> -> << Cmd("clear_line", "ToEnd", << >>) >>
      [] seq = << ESC, 91, 50, 59, 50, 72 >> -> << Cmd("set_cursor_pos", "", << 1, 1 >>) >>
      [] seq = << ESC, 91, 65 >> -> << Cmd("move_cursor", "Up", << 1 >>) >>
      [] seq = << ESC, 91, 52, 59, 51, 50, 109 >> ->
            << Cmd("set_character_style", "UNDERLINE", << >>),
               Cmd("set_foreground_color", "Index", << 2 >>) >>
      [] seq = << ESC, 91, 63, 50, 48, 48, 52, 104 >> ->
            << Cmd("set_bracketed_paste", "Enable", << >>) >>
      [] seq = << ESC, 93, 48, 59, 116, BEL >> -> << Cmd("set_window_title", "", << 116 >>) >>
      [] seq = << ESC, 40, 66 >> -> << >>

\* C2: for every non-empty proper prefix p of a recognized sequence s, feeding
\* p calls no sink method and keeps all of p as the tail; feeding the rest of
\* s afterwards makes the calls of s exactly once and leaves no tail.
C2_PrefixHeldThenIssuedOnce ==
    (input \in RecognizedSequences /\ 0 < cut /\ cut < Len(input)) =>
        /\ chunks = 1 =>
              /\ chunkedLog = << >>
              /\ chunked = [Screen_new(Rows, Cols) EXCEPT !.residual_input = Take(input, cut)]
        /\ chunks = 2 =>
              /\ chunkedLog = CommandsOf(input)
              /\ chunked.residual_input = << >>

\* ESC [ 2 was fed, then J: one clear_screen(All)
C2_Witness ==
    /\ input = << ESC, 91, 50, 74 >> /\ cut = 3 /\ chunks = 2
    /\ chunkedLog = << Cmd("clear_screen", "All", << >>) >>

\* the rendition attributes of a screen
Attributes(s) == << s.style, s.foreground, s.background >>

\* C7: an SGR sequence holding an unknown code is reported as an invalid
\* control sequence and changes no attribute: style, foreground and
\* background are what they were before the sequence.
C7_UnknownSgrChangesNothing ==
    \A a \in RecognizedSequences \cup { << >> }, g \in UnknownSgrSequences :
        (wholeDone /\ input = a \o g) =>
            /\ wholeLog # << >>
            /\ wholeLog[Len(wholeLog)] = Cmd("invalid_control_sequence", "", g)
            /\ Attributes(whole) = Attributes(process_input(Screen_new(Rows, Cols), a))

\* an absent or 0 argument counts as 1
WireArgument(n) == IF n = 0 THEN 1 ELSE n

\* C16: CSI r ; c H sets the cursor to (min(r-1, rows-1), min(c-1, cols-1)),
\* where an absent or 0 argument counts as 1 and the subtraction never
\* underflows; text following it is written starting at that cell (A, then
\* the sequence, then B puts A at (0, 0) and B at the cell addressed).
C16_CursorPositionClamped ==
    /\ \A h \in CursorPositionSequences :
          LET row == Min(WireArgument(h.r) - 1, Rows - 1)
              col == Min(WireArgument(h.c) - 1, Cols - 1)
          IN  /\ (wholeDone /\ input = h.bytes) =>
                    /\ ~whole.panicked
                    /\ wholeLog = << Cmd("set_cursor_pos", "",
                                         << WireArgument(h.r) - 1, WireArgument(h.c) - 1 >>) >>
                    /\ whole.cursor = Position(row, col)
                    /\ whole.grid = CharacterGrid_new(Rows, Cols)
              /\ (wholeDone /\ input = h.bytes \o << 65 >>) =>
                    /\ ~whole.panicked
                    /\ cell_at(whole.grid, row, col).character = 65
                    /\ \A r \in 0..(Rows - 1), c \in 0..(Cols - 1) :
                          << r, c >> # << row, col >> =>
                              cell_at(whole.grid, r, c) = GridCell_empty
    /\ (wholeDone /\ input = PositionExample) =>
          /\ cell_at(whole.grid, 0, 0).character = 65
          /\ cell_at(whole.grid, 1, 1).character = 66
          /\ cell_at(whole.grid, 0, 1) = GridCell_empty

\* ESC [ 9 ; 9 H A: both arguments are clamped and A is in the last cell
C16_Witness ==
    /\ wholeDone /\ input = << ESC, 91, 57, 59, 57, 72, 65 >>
    /\ cell_at(whole.grid, Rows - 1, Cols - 1).character = 65
    /\ wholeLog[1] = Cmd("set_cursor_pos", "", << 8, 8 >>)

\* C17: a cell written by text carries the foreground, background and style
\* that are current at the moment of writing, and SGR 0 resets all three to
\* the defaults: ESC [ 31 m X ESC [ 0 m Y yields X with foreground palette
\* index 1 and the background current before it (the default one when nothing
\* set it), and Y with default foreground, default background and no style.
C17_CellsCarryCurrentAttributes ==
    \A a \in AttributeSequences \cup { << >> } :
        (wholeDone /\ input = a \o ColourExample) =>
            LET before == process_input(Screen_new(Rows, Cols), a)
                X == cell_at(whole.grid, 0, 0)
                Y == cell_at(whole.grid, 0, 1)
            IN  /\ X = GridCell(88, Index(1), before.background, before.style)
                /\ a = << >> => X = GridCell(88, Index(1), DEFAULT_BACKGROUND, {})
                /\ Y = GridCell(89, DEFAULT_FOREGROUND, DEFAULT_BACKGROUND, {})
                /\ Attributes(whole) = << {}, DEFAULT_FOREGROUND, DEFAULT_BACKGROUND >>

\* the example after ESC [ 4 ; 32 m: X is underlined and red, Y is plain
C17_Witness ==
    /\ wholeDone /\ input = << ESC, 91, 52, 59, 51, 50, 109 >> \o ColourExample
    /\ cell_at(whole.grid, 0, 0) = GridCell(88, Index(1), DEFAULT_BACKGROUND, {"UNDERLINE"})
    /\ cell_at(whole.grid, 0, 1) = GridCell(89, DEFAULT_FOREGROUND, DEFAULT_BACKGROUND, {})

\* ESC [ 3 J
ClearScrollbackSequence == << ESC, 91, 51, 74 >>

\* self-contained pieces of input: nothing, a recognized sequence, a letter,
\* a line feed
WholeFragments == RecognizedSequences \cup { << >>, << 65 >>, << LF >> }

\* the positions of a command log that hold a call of op
CallsOf(log, op) == { i \in 1..Len(log) : log[i].op = op }

\* C21: ESC [ 3 J is recognized and reported as clear_scrollback, not as an
\* invalid control sequence, and is otherwise a no-op: processing does not
\* abort, and the screen after a ESC [ 3 J b is the screen after a b.
C21_ClearScrollbackIsNoOp ==
    \A a \in WholeFragments, b \in WholeFragments :
        (wholeDone /\ input = a \o ClearScrollbackSequence \o b) =>
            /\ ~whole.panicked
            /\ whole = process_input(Screen_new(Rows, Cols), a \o b)
            /\ CallsOf(wholeLog, "clear_scrollback") # {}
            /\ CallsOf(wholeLog, "invalid_control_sequence") = {}

\* C22: an input holding a malformed or unrecognized control sequence g makes
\* exactly one call of invalid_control_sequence, with exactly the bytes of g;
\* the grid and the cursor are what they were before g, processing goes on
\* (it is never fatal), and the bytes after g issue the calls they issue at
\* the start of a fresh input.  When g issues no call of its own before the
\* report, the screen is the one the input without g leaves.
C22_InvalidSequenceReportedOnce ==
    \A a \in BeforeInvalid, g \in InvalidSequences, b \in AfterInvalid :
        (wholeDone /\ input = a \o g \o b) =>
            LET before  == process_input_calls(Screen_new(Rows, Cols), a)
                reports == CallsOf(wholeLog, "invalid_control_sequence")
            IN  /\ ~whole.panicked
                /\ whole.residual_input = << >>
                /\ Cardinality(reports) = 1
                /\ \A i \in reports :
                      /\ wholeLog[i] = Cmd("invalid_control_sequence", "", g)
                      /\ Take(wholeLog, Len(before.issued)) = before.issued
                      /\ Drop(wholeLog, i) = parse(b).cmds
                /\ b = << >> =>
                      /\ whole.grid = before.screen.grid
                      /\ whole.cursor = before.screen.cursor
                /\ g \in PlainInvalidSequences =>
                      whole = process_input(Screen_new(Rows, Cols), a \o b)

\* A ESC [ 5 Z B: A and B are written side by side and the sequence between
\* them is reported
C22_Witness ==
    /\ wholeDone /\ input = << 65, ESC, 91, 53, 90, 66 >>
    /\ wholeLog = << Cmd("text", "", << 65 >>),
                     Cmd("invalid_control_sequence", "", << ESC, 91, 53, 90 >>),
                     Cmd("text", "", << 66 >>) >>
    /\ cell_at(whole.grid, 0, 0).character = 65
    /\ cell_at(whole.grid, 0, 1).character = 66

\* C23: malformed UTF-8 inside a text run is reported through invalid_utf8
\* and never through invalid_control_sequence; each report writes exactly one
\* U+FFFD cell at the cursor, and the valid text before and after it is
\* written unchanged and in its order.
C23_MalformedTextReplaced ==
    \A m \in MalformedTexts :
        (wholeDone /\ input = m.bytes) =>
            /\ ~whole.panicked
            /\ CallsOf(wholeLog, "invalid_control_sequence") = {}
            /\ Cardinality(CallsOf(wholeLog, "invalid_utf8")) = m.reports
            /\ \A k \in 1..(Rows * Cols) :
                  whole.grid.cells[k] =
                      IF k <= Len(m.cells)
                      THEN GridCell(m.cells[k], DEFAULT_FOREGROUND, DEFAULT_BACKGROUND, {})
                      ELSE GridCell_empty
            /\ whole.cursor.row * Cols + whole.cursor.col = Len(m.cells)

\* A, 0xFF, B: the byte 0xFF is reported and U+FFFD stands between A and B
C23_Witness ==
    /\ wholeDone /\ input = << 65, 255, 66 >>
    /\ wholeLog = << Cmd("text", "", << 65 >>),
                     Cmd("invalid_utf8", "", << 255 >>),
                     Cmd("text", "", << 66 >>) >>
    /\ cell_at(whole.grid, 0, 1).character = REPLACEMENT_CHARACTER
    /\ cell_at(whole.grid, 1, 0).character = 66

\* the behaviours Screen keeps a flag for (struct Behaviours)
ScreenFlags == { "ShowCursor", "AlternateBuffer", "BracketedPaste" }

\* the behaviours a screen has enabled
Enabled(s) ==
    { b \in ScreenFlags :
        CASE b = "ShowCursor" -> s.behaviours.show_cursor
          [] b = "AlternateBuffer" -> s.behaviours.alternate_buffer
          [] OTHER -> s.behaviours.bracketed_paste }

\* what CSI ? n h (on = TRUE) or CSI ? n l (on = FALSE) is to do to a screen
\* that was in the state before: the sequence is recognized, the flag of the
\* behaviour p names is on or off, and the other flags are as they were.
\* Screen keeps no flag for application-cursor: for n = 1 the flags are to
\* stay as they were.
Toggled(p, on, before) ==
    /\ CallsOf(wholeLog, "invalid_control_sequence") = {}
    /\ Enabled(whole) = IF on THEN Enabled(before) \cup ({ p.behaviour } \cap ScreenFlags)
                        ELSE Enabled(before) \ { p.behaviour }
    /\ p.n \in { 47, 1047 } => whole.cursor = before.cursor

\* C24: for n in {1, 25, 47, 1047, 2004}, CSI ? n h enables and CSI ? n l
\* disables exactly the behaviour n names (application-cursor, show-cursor,
\* alternate-buffer, alternate-buffer, bracketed-paste) and leaves every other
\* behaviour as it was; the codes 47 and 1047 leave the cursor where it was.
C24_PrivateModeTogglesNamedBehaviour ==
    \A p \in PrivateModes, pre \in { << >>, << 65 >> } :
        LET before == process_input(Screen_new(Rows, Cols), pre)
        IN  /\ (wholeDone /\ input = pre \o PrivateMode(p.digits, 104)) =>
                  Toggled(p, TRUE, before)
            /\ (wholeDone /\ input = pre \o PrivateMode(p.digits, 108)) =>
                  Toggled(p, FALSE, before)
            /\ (wholeDone /\ input = PrivateMode(p.digits, 104) \o PrivateMode(p.digits, 108)) =>
                  Toggled(p, FALSE, Screen_new(Rows, Cols))

\* the cells of a grid, blank
BlankGrid(grid) == grid.cells = [k \in 1..(grid.rows * grid.cols) |-> GridCell_empty]

\* C25: CSI ? 1049 h saves the cursor, makes the alternate buffer active and
\* clears it; CSI ? 1049 l leaves the alternate buffer and restores the saved
\* cursor: after A, h, B, l the cursor and the primary grid are what they
\* were after A.
C25_CompositeAlternateToggle ==
    LET before == process_input(Screen_new(Rows, Cols), << 65 >>)
    IN  /\ (wholeDone /\ input = EnterAlternate) =>
              /\ whole.behaviours.alternate_buffer
              /\ whole.saved_cursor = before.cursor
              /\ BlankGrid(whole.grid)
              /\ whole.alternate_grid = before.grid
        /\ (wholeDone /\ input = EnterAlternate \o LeaveAlternate) =>
              /\ ~whole.behaviours.alternate_buffer
              /\ whole.cursor = before.cursor
              /\ whole.grid = before.grid

\* C26: the SGR extended-colour groups are applied exactly: 38;5;i sets the
\* foreground to palette index i, 38;2;r;g;b sets it to RGB(r,g,b), and 48
\* does the same for the background; the other colour is left as it was and
\* text written afterwards carries the colour.
C26_ExtendedColoursApplied ==
    \A x \in ExtendedColourSequences :
        (wholeDone /\ input = x.bytes \o << 88 >>) =>
            /\ ~whole.panicked
            /\ whole.foreground = IF x.ground = "foreground" THEN x.color ELSE DEFAULT_FOREGROUND
            /\ whole.background = IF x.ground = "background" THEN x.color ELSE DEFAULT_BACKGROUND
            /\ cell_at(whole.grid, 0, 0) =
                  GridCell(88, whole.foreground, whole.background, {})


\* C34: for n in 0..7, code 30 + n sets the foreground to palette index n
\* and code 40 + n sets the background to palette index n; the character
\* written next carries the colour.
C34_BasicColoursSameOffset ==
    \A x \in BasicColourSequences :
        (wholeDone /\ input = x.bytes \o << 88 >>) =>
            /\ ~whole.panicked
            /\ CallsOf(wholeLog, "invalid_control_sequence") = { }
            /\ IF x.ground = "foreground"
               THEN /\ whole.foreground = Index(x.n)
                    /\ cell_at(whole.grid, 0, 0).foreground = Index(x.n)
                    /\ whole.background = DEFAULT_BACKGROUND
               ELSE /\ whole.background = Index(x.n)
                    /\ cell_at(whole.grid, 0, 0).background = Index(x.n)
                    /\ whole.foreground = DEFAULT_FOREGROUND

\* the bytes of the text runs passed to text and invalid_utf8
RunBytes(log) ==
    UNION { { log[i].n[k] : k \in 1..Len(log[i].n) } :
            i \in CallsOf(log, "text") \cup CallsOf(log, "invalid_utf8") }

\* the first bytes of the groups passed to invalid_control_sequence
ReportedFirstBytes(log) ==
    { log[i].n[1] : i \in CallsOf(log, "invalid_control_sequence") }

\* C37 as stated: only bytes 0x00-0x1F are control bytes; DEL is kept in
\* the text run and is never reported through invalid_control_sequence.
C37_OnlyC0IsControlAsStated ==
    wholeDone =>
        /\ \A b \in ReportedFirstBytes(wholeLog) : b <= 31
        /\ input = DelExample => wholeLog = << Cmd("text", "", DelExample) >>

\* C37: the control bytes of the decoder are 0x00-0x1F and 0x7F (DEL): a text
\* run holds none of them and every other byte of the input stays in a run;
\* a group reported through invalid_control_sequence starts with one of
\* them, and DEL is reported as a group of its own that ends the run.
C37_ControlBytesAreC0AndDel ==
    wholeDone =>
        /\ \A b \in RunBytes(wholeLog) : ~(b <= 31 \/ b = DEL)
        /\ \A b \in ReportedFirstBytes(wholeLog) : b <= 31 \/ b = DEL
        /\ input = DelExample =>
              wholeLog = << Cmd("text", "", << 65 >>),
                            Cmd("invalid_control_sequence", "", << DEL >>),
                            Cmd("text", "", << 66 >>) >>
        /\ input = << 65, 32, 126, 66 >> => wholeLog = << Cmd("text", "", input) >>
        /\ input = << 65, 128, 66 >> =>
              wholeLog = << Cmd("text", "", << 65 >>), Cmd("invalid_utf8", "", << 128 >>),
                            Cmd("text", "", << 66 >>) >>

\* A DEL B: DEL is reported and A, B are written side by side
C37_Witness ==
    /\ wholeDone /\ input = DelExample
    /\ Len(wholeLog) = 3
    /\ wholeLog[2] = Cmd("invalid_control_sequence", "", << DEL >>)
    /\ cell_at(whole.grid, 0, 0).character = 65
    /\ cell_at(whole.grid, 0, 1).character = 66

\* log[i ..] holds the calls cmds next
CallsNext(log, i, cmds) ==
    /\ i + Len(cmds) - 1 <= Len(log)
    /\ SubSeq(log, i, i + Len(cmds) - 1) = cmds

RECURSIVE Accounted(_, _, _, _, _)
\* the calls log[i ..] and the tail account for bytes[pos ..], left to right:
\* a control byte starts a recognized sequence, whose calls come next, or a
\* group passed to invalid_control_sequence, or the tail; each takes at least
\* one byte.  Any other byte starts a group passed to text or to
\* invalid_utf8, or the tail.
Accounted(bytes, pos, log, i, tail) ==
    IF pos > Len(bytes) THEN i > Len(log) /\ tail = << >>
    ELSE IF is_ascii_control(bytes[pos]) THEN
        LET r == parse_control_sequence(bytes, pos)
        IN  CASE r.res = "Incomplete" ->
                    i > Len(log) /\ tail = SubSeq(bytes, pos, Len(bytes))
              [] r.res = "Ok" ->
                    /\ r.pos > pos
                    /\ CallsNext(log, i, r.cmds)
                    /\ Accounted(bytes, r.pos, log, i + Len(r.cmds), tail)
              [] OTHER ->
                    /\ r.pos > pos
                    /\ CallsNext(log, i, r.cmds \o << Cmd("invalid_control_sequence", "",
                                                        SubSeq(bytes, pos, r.pos - 1)) >>)
                    /\ Accounted(bytes, r.pos, log, i + Len(r.cmds) + 1, tail)
    ELSE IF i > Len(log) THEN tail = SubSeq(bytes, pos, Len(bytes))
    ELSE /\ log[i].op \in { "text", "invalid_utf8" }
         /\ log[i].op = "invalid_utf8" => Len(log[i].n) >= 1
         /\ pos + Len(log[i].n) - 1 <= Len(bytes)
         /\ SubSeq(bytes, pos, pos + Len(log[i].n) - 1) = log[i].n
         /\ Accounted(bytes, pos + Len(log[i].n), log, i + 1, tail)

\* C38: parse ends on every input and accounts for every byte once and in
\* order: the tail is a suffix of the input and the bytes before it are
\* the text runs, the invalid_utf8 groups, the invalid_control_sequence
\* groups and the recognized sequences, left to right; a step that handles a
\* control byte takes at least one byte.
C38_ParseAccountsForEveryByte ==
    wholeDone =>
        LET p == parse(input)
        IN  /\ Len(p.tail) <= Len(input)
            /\ p.tail = Drop(input, Len(input) - Len(p.tail))
            /\ Accounted(input, 1, p.cmds, 1, p.tail)
            /\ Take(p.cmds, Len(wholeLog)) = wholeLog
            /\ ~whole.panicked => wholeLog = p.cmds /\ whole.residual_input = p.tail

\* the example with a text run, both kinds of invalid_utf8 group, a reported
\* sequence, a recognized one and a tail
C38_Witness ==
    /\ wholeDone /\ input = AccountingExample
    /\ wholeLog = << Cmd("text", "", << 65 >>),
                     Cmd("invalid_utf8", "", << 255 >>),
                     Cmd("text", "", << >>),
                     Cmd("invalid_utf8", "", << 195 >>),
                     Cmd("invalid_control_sequence", "", << ESC, 91, 53, 90 >>),
                     Cmd("line_feed", "", << >>),
                     Cmd("text", "", << 66 >>) >>
    /\ whole.residual_input = << ESC, 91 >>

\* 1 to 3 bytes that form the incomplete start of a UTF-8 character
IncompleteCharacter(bytes) ==
    /\ Len(bytes) \in 1..3
    /\ from_utf8(bytes).error = "incomplete"
    /\ from_utf8(bytes).valid_up_to = 0

\* parse returns all of bytes as its tail, and issues no call but text("")
NothingComplete(bytes) ==
    LET p == parse(bytes)
    IN  /\ p.tail = bytes
        /\ \A i \in 1..Len(p.cmds) : p.cmds[i] = Cmd("text", "", << >>)

\* what a residual buffer may hold
ResidualShape(residual) ==
    \/ residual = << >>
    \/ residual[1] = ESC /\ NothingComplete(residual)
    \/ IncompleteCharacter(residual) /\ NothingComplete(residual)

\* the tail of the parse in the first call on the chunked screen
FirstTail == parse(Take(input, cut)).tail

\* C40: after every call of process_input the residual buffer is empty, or
\* begins with the ESC of a sequence not yet complete, or is the 1 to 3
\* bytes of an incomplete UTF-8 character; it holds no complete sequence and
\* equals the tail returned by the last parse, whose input was the residual
\* before the call followed by the bytes of the call.
C40_ResidualIsLastTail ==
    /\ (wholeDone /\ ~whole.panicked) =>
          /\ ResidualShape(whole.residual_input)
          /\ whole.residual_input = parse(input).tail
    /\ (chunks = 1 /\ ~chunked.panicked) =>
          /\ ResidualShape(chunked.residual_input)
          /\ chunked.residual_input = FirstTail
    /\ (chunks = 2 /\ ~chunked.panicked) =>
          /\ ResidualShape(chunked.residual_input)
          /\ chunked.residual_input = parse(FirstTail \o Drop(input, cut)).tail

\* a sequence cut after ESC [ 2 is held after the first call and issued by
\* the second, which leaves nothing
C40_Witness ==
    /\ input = PositionExample /\ cut = 4
    /\ chunks = 2 /\ ~chunked.panicked
    /\ FirstTail = << ESC, 91, 50 >>
    /\ chunked.residual_input = << >>
    /\ chunkedLog = << Cmd("text", "", << 65 >>),
                       Cmd("set_cursor_pos", "", << 1, 1 >>),
                       Cmd("text", "", << 66 >>) >>
(***************************************************************************)
(* Properties of the screen scenario (SpecScreen)                          *)
(***************************************************************************)
\* the cell of the active grid at (r, c), before and after the call
Before(r, c) == cell_at(prev.grid, r, c)
After(r, c)  == cell_at(screen.grid, r, c)

GridRows == 0..(prev.grid.rows - 1)
GridCols == 0..(prev.grid.cols - 1)

\* a cell that shows nothing
Blank(cell) == cell.character = SPACE

\* the call was one a CSI A, B, C, D or H sequence makes: move_cursor with
\* at least one step, or set_cursor_pos
CsiCursorMove ==
    \/ lastOp.op = "move_cursor" /\ lastOp.n[1] >= 1
    \/ lastOp.op = "set_cursor_pos"

ClampedTarget ==
    CASE lastOp.op = "set_cursor_pos" ->
            Position(Min(lastOp.n[1], prev.grid.rows - 1), Min(lastOp.n[2], prev.grid.cols - 1))
      [] lastOp.s = "Up" -> Position(Max(prev.cursor.row - lastOp.n[1], 0), prev.cursor.col)
      [] lastOp.s = "Down" ->
            Position(Min(prev.cursor.row + lastOp.n[1], prev.grid.rows - 1), prev.cursor.col)
      [] lastOp.s = "Left" -> Position(prev.cursor.row, Max(prev.cursor.col - lastOp.n[1], 0))
      [] OTHER ->
            Position(prev.cursor.row, Min(prev.cursor.col + lastOp.n[1], prev.grid.cols - 1))

InClearRegion(op, region, cur, r, c) ==
    CASE op = "clear_line" /\ region = "ToEnd" -> r = cur.row /\ c >= cur.col
      [] op = "clear_line" /\ region = "ToStart" -> r = cur.row /\ c <= cur.col
      [] op = "clear_screen" /\ region = "ToEnd" -> r > cur.row \/ (r = cur.row /\ c >= cur.col)
      [] op = "clear_screen" /\ region = "ToStart" -> r < cur.row \/ (r = cur.row /\ c <= cur.col)
      [] OTHER -> TRUE

\* C4: clear_line and clear_screen with ToEnd or ToStart change only the
\* cells of the stated region; every other cell of the grid is left as it
\* was, for every cursor position.
C4_ClearLeavesComplement ==
    (lastOp.op \in {"clear_line", "clear_screen"} /\ lastOp.s \in {"ToEnd", "ToStart"}) =>
        /\ ~screen.panicked
        /\ \A r \in GridRows, c \in GridCols :
              ~InClearRegion(lastOp.op, lastOp.s, prev.cursor, r, c) => After(r, c) = Before(r, c)

\* the call was scroll_up(N) or scroll_down(N) with N <= end - start
ScrollWithin(op) ==
    /\ lastOp.op = op
    /\ lastOp.n[1] <= prev.scrolling_region.end - prev.scrolling_region.start

\* C5: scroll_up(N) with region [start, end) and N <= end - start moves rows
\* [start+N, end) to [start, end-N), blanks the last N rows of the region
\* and leaves every row outside the region unchanged.
C5_ScrollUpMovesRegion ==
    ScrollWithin("scroll_up") =>
        LET start == prev.scrolling_region.start
            end   == prev.scrolling_region.end
            N     == lastOp.n[1]
        IN  /\ ~screen.panicked
            /\ \A r \in GridRows, c \in GridCols :
                  /\ (r < start \/ r >= end) => After(r, c) = Before(r, c)
                  /\ (start <= r /\ r < end - N) => After(r, c) = Before(r + N, c)
                  /\ (end - N <= r /\ r < end) => Blank(After(r, c))

\* scroll_up(1) of a region below the first row, on a screen full of text
C5_Witness ==
    /\ lastOp = Cmd("scroll_up", "", << 1 >>)
    /\ prev.scrolling_region = [start |-> 1, end |-> 3]
    /\ \A r \in GridRows, c \in GridCols : ~Blank(Before(r, c))
    /\ After(0, 0) = Before(0, 0)
    /\ After(1, 0) = Before(2, 0)
    /\ Blank(After(2, 0))

\* C6: scroll_down(N) with region [start, end) and N <= end - start, for
\* every start, moves rows [start, end-N) to [start+N, end), blanks rows
\* [start, start+N) and leaves every row outside the region unchanged.
C6_ScrollDownMovesRegion ==
    ScrollWithin("scroll_down") =>
        LET start == prev.scrolling_region.start
            end   == prev.scrolling_region.end
            N     == lastOp.n[1]
        IN  /\ ~screen.panicked
            /\ \A r \in GridRows, c \in GridCols :
                  /\ (r < start \/ r >= end) => After(r, c) = Before(r, c)
                  /\ (start + N <= r /\ r < end) => After(r, c) = Before(r - N, c)
                  /\ (start <= r /\ r < start + N) => Blank(After(r, c))

\* the last call wrote text with the cursor at the origin and the scrolling
\* region the full height of the grid
TextFromOrigin ==
    /\ lastOp.op = "text"
    /\ prev.cursor = Position(0, 0)
    /\ prev.scrolling_region = [start |-> 0, end |-> prev.grid.rows]

\* C18: writing k characters with the cursor at the origin of a grid whose
\* scrolling region is the full height places the i-th character (i from 0) at
\* (i div cols, i mod cols) for every k <= rows * cols, so a full screen of
\* text fills every cell without scrolling and leaves the other cells alone;
\* one more character scrolls the region up by exactly one row and is written
\* at column 0 of the last row.
C18_TextFillsRowByRow ==
    TextFromOrigin =>
        LET cs == chars(lastOp.n)
            k  == Len(cs)
        IN  /\ ~screen.panicked
            /\ k <= prev.grid.rows * prev.grid.cols =>
                  \A i \in 0..(prev.grid.rows * prev.grid.cols - 1) :
                      IF i < k
                      THEN After(i \div prev.grid.cols, i % prev.grid.cols) =
                              GridCell(cs[i + 1], prev.foreground, prev.background, prev.style)
                      ELSE After(i \div prev.grid.cols, i % prev.grid.cols) =
                              Before(i \div prev.grid.cols, i % prev.grid.cols)
            /\ k = prev.grid.rows * prev.grid.cols + 1 =>
                  /\ \A i \in prev.grid.cols..(prev.grid.rows * prev.grid.cols - 1) :
                        After((i \div prev.grid.cols) - 1, i % prev.grid.cols).character = cs[i + 1]
                  /\ After(prev.grid.rows - 1, 0).character = cs[k]
                  /\ \A c \in 1..(prev.grid.cols - 1) : After(prev.grid.rows - 1, c).character = SPACE
                  /\ screen.cursor = Position(prev.grid.rows - 1, 1)

\* a full screen of text and one character more: the grid has scrolled once
C18_Witness ==
    /\ TextFromOrigin /\ Len(chars(lastOp.n)) = Rows * Cols + 1
    /\ After(0, 0).character = FillText[Cols + 1]
    /\ After(Rows - 1, 0).character = 122

\* the cell at (r, c) is one the last call blanked: in the region of
\* clear_line or clear_screen, or in a row exposed by scroll_up
ClearedByLastCall(r, c) ==
    \/ /\ lastOp.op = "clear_screen"
       /\ InClearRegion(lastOp.op, lastOp.s, prev.cursor, r, c)
    \/ /\ lastOp.op = "clear_line" /\ r = prev.cursor.row
       /\ InClearRegion(lastOp.op, lastOp.s, prev.cursor, r, c)
    \/ /\ ScrollWithin("scroll_up")
       /\ prev.scrolling_region.end - lastOp.n[1] <= r /\ r < prev.scrolling_region.end

\* C19: every cell blanked by a clear operation (clear_screen, clear_line,
\* and the rows exposed by scrolling) is a space carrying the background
\* colour current at the time of the clear and an empty style set, whatever
\* style flags and background are currently set by SGR.
C19_ClearedCellsCarryBackground ==
    ~screen.panicked =>
        \A r \in GridRows, c \in GridCols :
            ClearedByLastCall(r, c) =>
                /\ After(r, c).character = SPACE
                /\ After(r, c).background = prev.background
                /\ After(r, c).style = {}

\* C30: for every cursor position (inside, above or below the scrolling
\* region) and every count N, insert_lines(N) and delete_lines(N) leave every
\* row outside the scrolling region [start, end) unchanged and, within the
\* region, change only rows from the cursor row to end.
C30_LinesChangeOnlyRegionBelowCursor ==
    lastOp.op \in { "insert_lines", "delete_lines" } =>
        /\ ~screen.panicked
        /\ \A r \in GridRows, c \in GridCols :
              (\/ r < prev.scrolling_region.start
               \/ r >= prev.scrolling_region.end
               \/ r < prev.cursor.row) => After(r, c) = Before(r, c)


\* the calls that move lines within the scrolling region
LineOps == { "scroll_up", "scroll_down", "insert_lines", "delete_lines" }

\* a u16 operation of scroll_up(count) on s overflows
scroll_up_overflows(s, count) ==
    \/ u16_add(s.scrolling_region.start, count).overflow
    \/ /\ u16_add(s.scrolling_region.start, count).value <= s.scrolling_region.end
       /\ u16_sub(s.scrolling_region.end, count).overflow

\* C31: for every count in the u16 range, every scrolling region and every
\* cursor position, scroll_up, scroll_down, insert_lines and delete_lines
\* complete: no u16 operation overflows and no copy or fill leaves the cell buffer.
C31_LineOpsCompleteForEveryCount ==
    lastOp.op \in LineOps =>
        /\ ~screen.panicked
        /\ lastOp.op = "scroll_up" => ~scroll_up_overflows(prev, lastOp.n[1])

\* C35: erase(N) blanks exactly the cells in columns [col, min(col + N, cols))
\* of the cursor row, for every cursor column and every N; every other cell
\* of the grid, and the cursor position, are unchanged.
C35_EraseBlanksExactlyNCells ==
    lastOp.op = "erase" =>
        /\ ~screen.panicked
        /\ screen.cursor = prev.cursor
        /\ \A r \in GridRows, c \in GridCols :
              IF /\ r = prev.cursor.row
                 /\ prev.cursor.col <= c
                 /\ c < Min(prev.cursor.col + lastOp.n[1], prev.grid.cols)
              THEN Blank(After(r, c))
              ELSE After(r, c) = Before(r, c)
(***************************************************************************)
(* Properties of the output pipeline scenario (SpecOut)                    *)
(***************************************************************************)
\* the concatenation of a sequence of sequences
RECURSIVE Flatten(_)
Flatten(seqs) == IF seqs = << >> THEN << >> ELSE Head(seqs) \o Flatten(Tail(seqs))

IsPrefix(a, b) == Len(a) <= Len(b) /\ a = SubSeq(b, 1, Len(a))

\* a Char code as the Text code of its one character
AsText(c) == IF c.code = "Char" THEN Code("Text", "", encode_utf8(c.n[1])) ELSE c

\* codes with every run of Text and Char codes joined into one Text code
RECURSIVE JoinCodes(_)
JoinCodes(cs) ==
    IF cs = << >> THEN << >>
    ELSE LET rest == JoinCodes(Tail(cs))
             c    == AsText(Head(cs))
         IN  IF c.code = "Text" /\ rest # << >> /\ Head(rest).code = "Text"
             THEN << Code("Text", "", c.n \o Head(rest).n) >> \o Tail(rest)
             ELSE << c >> \o rest

\* the reader has ended and the consumer has read up to Closed
StreamConsumed == rpc = "done" /\ lastRead = "Closed"

\* C8: what the consumer is delivered by its successive reads is, in order
\* and without loss or duplication, the decoding of the byte stream the
\* reader read, however the stream was cut into reads: the same content as
\* when the whole stream arrives in one read.
C8_DeliveredIsDecodingOfStream ==
    StreamConsumed =>
        JoinCodes(Flatten(received)) = JoinCodes(reader_decode(stream, << >>).codes)

\* C9: try_read returns Closed only after the reader loop has ended and
\* every message it enqueued has been delivered, and Empty only when the
\* queue is empty while the reader is alive; messages are delivered in the
\* order enqueued and none is lost when the reader exits.
C9_ClosedAfterAllDelivered ==
    /\ enqueued = received \o outQ
    /\ lastRead = "Closed" =>
          rpc = "done" /\ ~seen.alive /\ seen.queued = 0 /\ received = enqueued
    /\ lastRead = "Empty" => seen.alive /\ seen.queued = 0
    /\ lastRead = "Ok" => seen.queued > 0

\* a message read after the reader has exited with two messages queued
C9_Witness ==
    /\ lastRead = "Ok" /\ ~seen.alive /\ seen.queued = 2
    /\ rpc = "done" /\ Len(outQ) = 1 /\ Len(received) = Len(enqueued) - 1

\* the reader thread's loop body: read, send, wake
LoopBody == << "read", "send", "wake" >>

\* the number of i in 1..n with events[i] = e
RECURSIVE CountEvents(_, _)
CountEvents(e, n) ==
    IF n = 0 THEN 0 ELSE CountEvents(e, n - 1) + (IF events[n] = e THEN 1 ELSE 0)

\* C11: in the reader loop every non-empty read is followed by exactly one
\* enqueue on the output queue and then one wake of the UI thread, in that
\* order; so in no state is the output queue non-empty, the reader back in
\* read (or ended), and no wake issued since the last enqueue.
C11_EnqueueThenWake ==
    /\ \A i \in 1..Len(events) : events[i] = LoopBody[((i - 1) % 3) + 1]
    /\ Len(enqueued) = CountEvents("send", Len(events))
    /\ rpc \in {"read", "done"} =>
          CountEvents("wake", Len(events)) = CountEvents("read", Len(events))
    /\ (outQ # << >> /\ rpc \in {"read", "done"}) =>
          \E i \in 1..Len(events) :
             /\ events[i] = "wake"
             /\ \E j \in 1..(i - 1) : events[j] = "send" /\ \A k \in (j + 1)..Len(events) : events[k] # "send"

\* the reader is back in read after two rounds, with both messages still queued
C11_Witness ==
    /\ rpc = "read" /\ Len(outQ) = 2 /\ Len(events) = 6 /\ fed < Len(stream)

(***************************************************************************)
(* Properties of the input pipeline scenario (SpecIn)                      *)
(***************************************************************************)
\* the bytes of the first n accepted chunks
AcceptedBytes(n) == Flatten(SubSeq(accepted, 1, n))

\* C10: every chunk the input queue accepted is eventually written to the
\* pseudo-terminal and flushed, in enqueue order, with no further send
\* needed (the writer thread being scheduled, writes succeeding); nothing
\* else is ever written.
C10_AcceptedEventuallyFlushed ==
    /\ [] IsPrefix(writer.file, AcceptedBytes(Len(accepted)))
    /\ [] (wpc \in {"exit", "done"} =>
              inQ = << >> /\ writer.file \o writer.buf = AcceptedBytes(Len(accepted)))
    /\ [] (wpc = "done" => writer.file = AcceptedBytes(Len(accepted)))
    /\ \A n \in 1..MaxChunks :
          (Len(accepted) >= n) ~> (Len(accepted) >= n /\ IsPrefix(AcceptedBytes(n), writer.file))

\* all the chunks are flushed while the sender is alive and the writer waits
C10_Witness ==
    /\ uiAlive /\ wpc = "recv" /\ inQ = << >>
    /\ Len(accepted) = MaxChunks
    /\ writer = [buf |-> << >>, file |-> AcceptedBytes(MaxChunks)]

(***************************************************************************)
(* Properties of the session scenario (SpecSession)                        *)
(***************************************************************************)
\* the last call switched the alternate buffer on (off)
AlternateEnabled ==
    /\ lastOp.op = "toggle_behaviour" /\ lastOp.s = "AlternateBuffer"
    /\ ~prev.behaviours.alternate_buffer /\ screen.behaviours.alternate_buffer

AlternateDisabled ==
    /\ lastOp.op = "toggle_behaviour" /\ lastOp.s = "AlternateBuffer"
    /\ prev.behaviours.alternate_buffer /\ ~screen.behaviours.alternate_buffer

\* C12: entering and leaving the alternate buffer preserves the primary grid:
\* whatever commands (without a resize) ran while the alternate buffer was
\* active, the primary grid's cells after the buffer is disabled are those it
\* had when the buffer was enabled, and the toggle reallocates neither grid:
\* it exchanges the two.
C12_AlternateBufferKeepsPrimary ==
    /\ (AlternateDisabled /\ held.valid) => screen.grid = held.grid
    /\ (AlternateEnabled \/ AlternateDisabled) =>
          screen.grid = prev.alternate_grid /\ screen.alternate_grid = prev.grid

\* the buffer is disabled after a command changed the alternate grid, while
\* the primary grid held text
C12_Witness ==
    /\ AlternateDisabled /\ held.valid /\ left = 0
    /\ held.grid # CharacterGrid_new(Rows, Cols)
    /\ prev.grid # initial.grid
    /\ screen.grid = held.grid

\* cells.len() == rows * cols
WholeGrid(grid) == Len(grid.cells) = grid.rows * grid.cols

\* C13: in every reachable state each of the two grids, primary and
\* alternate, holds exactly rows * cols cells, and the two grids have the
\* same rows and the same cols, so that a cursor valid for one is valid for
\* the other after a swap or a resize.
C13_GridsWholeAndSameSize ==
    /\ WholeGrid(screen.grid) /\ WholeGrid(screen.alternate_grid)
    /\ screen.grid.rows = screen.alternate_grid.rows
    /\ screen.grid.cols = screen.alternate_grid.cols

\* the grids are swapped after a resize to another size
C13_Witness ==
    /\ prev.grid.rows * prev.grid.cols < Rows * Cols
    /\ AlternateEnabled \/ AlternateDisabled
    /\ C13_GridsWholeAndSameSize

\* C14: in every reachable state, after any sequence of set_scrolling_region
\* and resize_grid calls with arbitrary arguments, the scrolling region is a
\* well-formed row range inside the grid: 0 <= start <= end <= rows.
C14_ScrollingRegionWellFormed ==
    /\ 0 <= screen.scrolling_region.start
    /\ screen.scrolling_region.start <= screen.scrolling_region.end
    /\ screen.scrolling_region.end <= screen.grid.rows

\* every cell of the grid is GridCell::empty(), and there are rows * cols of them
AllBlank(grid, rows, cols) ==
    /\ grid.rows = rows /\ grid.cols = cols
    /\ Len(grid.cells) = rows * cols
    /\ \A i \in 1..Len(grid.cells) :
          /\ grid.cells[i].character = SPACE
          /\ grid.cells[i].foreground = DEFAULT_FOREGROUND
          /\ grid.cells[i].background = DEFAULT_BACKGROUND
          /\ grid.cells[i].style = {}

\* C15: resize_grid([r, c]) from any state leaves both grids r by c with
\* every cell blank, the cursor at (0, 0) and the scrolling region equal to
\* [0, r); a later restore_cursor of a position saved before the resize
\* yields a cursor inside the new grid.
C15_ResizeResetsAndRestoreClamps ==
    /\ lastOp.op = "resize_grid" =>
          /\ AllBlank(screen.grid, lastOp.n[1], lastOp.n[2])
          /\ AllBlank(screen.alternate_grid, lastOp.n[1], lastOp.n[2])
          /\ screen.cursor = Position(0, 0)
          /\ screen.scrolling_region = [start |-> 0, end |-> lastOp.n[1]]
    /\ lastOp.op = "restore_cursor" =>
          /\ screen.cursor.row < screen.grid.rows
          /\ screen.cursor.col < screen.grid.cols

\* restore_cursor after a resize that left the saved position outside the grid
C15_Witness ==
    /\ lastOp.op = "restore_cursor"
    /\ prev.saved_cursor.row >= prev.grid.rows /\ prev.saved_cursor.col >= prev.grid.cols
    /\ prev.grid.rows < Rows
    /\ screen.cursor = Position(prev.grid.rows - 1, prev.grid.cols - 1)

\* every cell of the rows [from, to) of the grid holds a space
RowsBlank(grid, from, to) ==
    \A r \in from..(to - 1), c \in 0..(grid.cols - 1) : cell_at(grid, r, c).character = SPACE

\* the characters of the grid, cell by cell
Characters(grid) == [i \in 1..Len(grid.cells) |-> grid.cells[i].character]

\* the two calls of the session were scroll_up(N) and then scroll_down(N), with
\* N at most the height of the scrolling region and the region all blank
ScrolledUpThenDown ==
    /\ left = MaxCalls - 2
    /\ lastOp.op = "scroll_down"
    /\ lastOp.n[1] <= initial.scrolling_region.end - initial.scrolling_region.start
    /\ RowsBlank(initial.grid, initial.scrolling_region.start, initial.scrolling_region.end)
    /\ scrolled.op = "scroll_up" /\ scrolled.n = lastOp.n

\* C20: scroll round trip: on a scrolling region whose cells are all blank,
\* scroll_up(N) followed by scroll_down(N) restores the grid content that
\* existed before the two scrolls, for every N <= region height, every region
\* position (start >= 0) and every current style and colour setting.
C20_ScrollRoundTrip ==
    ScrolledUpThenDown =>
        /\ ~screen.panicked
        /\ Characters(screen.grid) = Characters(initial.grid)

\* C29: in every state a sequence of commands reaches on a grid of at least
\* one row and one column, cursor.row < rows and cursor.col <= cols, and
\* writing characters never fails the grid's index assertion (row < rows and
\* col < cols): no text makes the screen panic.
C29_CursorAndWritesInBounds ==
    (screen.grid.rows >= 1 /\ screen.grid.cols >= 1) =>
        /\ screen.cursor.row < screen.grid.rows
        /\ screen.cursor.col <= screen.grid.cols
        /\ lastOp.op \in { "text", "invalid_utf8" } => ~screen.panicked

\* the second call writes text with the cursor past the last column of the
\* last row: the text wraps, the region scrolls and the character is written
C29_Witness ==
    /\ left = MaxCalls - 2
    /\ lastOp.op = "text"
    /\ prev.cursor = Position(prev.grid.rows - 1, prev.grid.cols)
    /\ ~screen.panicked
    /\ screen.cursor.row = screen.grid.rows - 1
    /\ screen.cursor.col >= 1


(***************************************************************************)
(* Properties of the atlas scenario (SpecAtlas)                            *)
(***************************************************************************)
Covers(v, x) == \E i \in 1..Len(v) : FreeRange_contains(v[i], x)

SortedDisjoint(v) == \A i \in 1..(Len(v) - 1) : v[i].end <= v[i + 1].start

NonEmptyRanges(v) == \A i \in 1..Len(v) : v[i].start < v[i].end

Ends(v) == { v[i].end : i \in 1..Len(v) }

\* every coordinate up to the largest end of a range in the scenario
Coordinates ==
    LET ends == Ends(atlasColumns) \cup Ends(atlasRow) \cup Ends(intersection) \cup { 0 }
    IN  0..(CHOOSE m \in ends : \A e \in ends : e <= m)

\* C28: keep_intersection of two lists of free ranges, each sorted by start
\* and pairwise disjoint, is a sorted, pairwise-disjoint list of non-empty
\* ranges that covers a coordinate exactly when both lists cover it; the
\* test's arguments give the test's result.
C28_KeepIntersectionIsIntersection ==
    computed =>
        /\ SortedDisjoint(intersection)
        /\ NonEmptyRanges(intersection)
        /\ \A x \in Coordinates :
              Covers(intersection, x) <=> (Covers(atlasColumns, x) /\ Covers(atlasRow, x))
        /\ (atlasColumns = range_intersect_av /\ atlasRow = range_intersect_bv) =>
              intersection = << FreeRange(2, 4), FreeRange(8, 10) >>

\* the test's case, computed
C28_Witness ==
    /\ computed
    /\ atlasColumns = range_intersect_av
    /\ atlasRow = range_intersect_bv
    /\ intersection = range_intersect_bv

(***************************************************************************)
(* Properties of the frame scenario (SpecFrame)                            *)
(***************************************************************************)
\* C27: within one EventsCleared the drain loop ends and a render follows,
\* even when the reader thread keeps enqueuing messages while the loop runs.
C27_DrainEndsAndRenderFollows == (ui = "drain") ~> (ui = "render")

(***************************************************************************)
(* Properties of the tab scenario (SpecTab)                                *)
(***************************************************************************)
\* the first multiple of 8 after column col
NextTabStop(col) == (col \div 8 + 1) * 8

\* the screen before the call with the cursor moved to column col
MovedTo(col) == [prev EXCEPT !.cursor.col = col]

\* the wrap-or-scroll step that writing past the last column performs
WrappedToNextRow == advance_row(MovedTo(0))

\* C36 as stated: tab leaves the cursor at the next multiple of 8 when that
\* is a column of the row (0 .. cols - 1), and otherwise at column 0 after the
\* wrap-or-scroll step.
C36_TabAsStated ==
    lastOp.op = "tab" =>
        /\ ~screen.panicked
        /\ IF NextTabStop(prev.cursor.col) <= prev.grid.cols - 1
           THEN screen = MovedTo(NextTabStop(prev.cursor.col))
           ELSE screen = WrappedToNextRow

\* C36: tab terminates for every grid width and cursor column; it leaves the
\* cursor at the next multiple of 8 when that is at most cols (at cols the
\* cursor is past the last column with the wrap pending, as after a character
\* written in the last column), and otherwise at column 0 after the
\* wrap-or-scroll step.
C36_TabStopsOrWraps ==
    lastOp.op = "tab" =>
        /\ ~screen.panicked
        /\ IF NextTabStop(prev.cursor.col) <= prev.grid.cols
           THEN screen = MovedTo(NextTabStop(prev.cursor.col))
           ELSE screen = WrappedToNextRow

\* a tab from the last row of a grid whose width is not a multiple of 8
\* wrapped and scrolled, and a tab stopped at column 8
C36_Witness ==
    /\ lastOp.op = "tab"
    /\ \/ /\ prev.grid.cols = 9 /\ prev.cursor = Position(Rows - 1, 8)
          /\ screen.cursor = Position(Rows - 1, 0)
          /\ screen.grid # prev.grid
       \/ /\ prev.grid.cols = 9 /\ prev.cursor.col = 3
          /\ screen.cursor = Position(prev.cursor.row, 8)

(***************************************************************************)
(* Properties of the carry scenario (SpecCarry)                            *)
(***************************************************************************)
\* C33: the reader loop ends only at the end of file, when the child has
\* closed the terminal and all it wrote has been read, also when the
\* incomplete sequence carried over between reads grows to the size of the
\* read buffer.
C33_ReaderEndsOnlyAtEndOfFile == rpc = "done" => fed = Len(stream)

(***************************************************************************)
(* Properties of the threads scenario (SpecThreads)                        *)
(***************************************************************************)
\* the UI thread waits in input.send on the full input queue
UiBlocked == uiAt = "send" /\ inputFill = QueueCapacity

\* the writer thread waits in a write to the full pseudo-terminal
WriterBlocked ==
    writerAt \in {"full", "empty"} /\ buffered > 0 /\ toChild = PtyCapacity

\* the child waits to write its output, and so does not read its input
ChildBlocked == toChild > 0 /\ fromChild = PtyCapacity

\* the reader thread waits in sender.send on the full output queue
ReaderBlocked == readerAt = "send" /\ outputFill = QueueCapacity

\* C32: the reader, writer and UI threads never deadlock: in no reachable
\* state is the UI thread blocked sending on the full input queue, the writer
\* thread blocked writing to the pseudo-terminal and the reader thread blocked
\* sending on the full output queue, with the child waiting for its output to
\* be read, so that no thread can take a step.
C32_ThreadsNeverDeadlock ==
    ~(UiBlocked /\ WriterBlocked /\ ChildBlocked /\ ReaderBlocked /\ ~ENABLED ThreadsNext)

(***************************************************************************)
(* Properties of the reserve scenario (SpecReserve)                        *)
(***************************************************************************)
\* the texels of a rectangle, as pairs << column, row >>
Texels(r) == (r.x..(r.x + r.width - 1)) \X (r.y..(r.y + r.height - 1))

\* the texels of the atlas
AtlasTexels == (0..(atlas.size - 1)) \X (0..(atlas.size - 1))

\* C39: reserve never hands out overlapping space: after any sequence of
\* reserve calls on an atlas of side S, every returned rectangle lies inside
\* [0,S) x [0,S), any two returned rectangles are disjoint, and the free
\* list of every row is sorted, pairwise disjoint and disjoint from every
\* returned rectangle; no call panics.
C39_ReserveNeverOverlaps ==
    /\ ~panicked
    /\ \A i \in 1..Len(rectangles) : Texels(rectangles[i]) \subseteq AtlasTexels
    /\ \A i, j \in 1..Len(rectangles) :
          i # j => Texels(rectangles[i]) \cap Texels(rectangles[j]) = {}
    /\ \A y \in 0..(atlas.size - 1) :
          /\ SortedDisjoint(atlas.rows[y + 1])
          /\ \A i \in 1..Len(rectangles) :
                \A t \in Texels(rectangles[i]) :
                    t[2] = y => ~Covers(atlas.rows[y + 1], t[1])

\* three rectangles returned, the last one taken out of the middle of a row's
\* free range: a range that ends before it and one that starts after it remain
C39_Witness ==
    /\ Len(rectangles) = MaxReserve
    /\ \E y \in 0..(atlas.size - 1) :
          \E i \in 1..(Len(atlas.rows[y + 1]) - 1) :
              /\ atlas.rows[y + 1][i].end = rectangles[MaxReserve].x
              /\ atlas.rows[y + 1][i + 1].start
                    = rectangles[MaxReserve].x + rectangles[MaxReserve].width
              /\ rectangles[MaxReserve].width > 0
              /\ rectangles[MaxReserve].y <= y
              /\ y < rectangles[MaxReserve].y + rectangles[MaxReserve].height
=============================================================================
